---- MODULE Spec2Model ----
(***************************************************************************)
(* A state-machine model of the Dyna-Warehouse core: the ingestion and     *)
(* sampling pipeline with its snapshot cache (warehouse/data_loader.py,    *)
(* warehouse/app.py), the pricing engine (warehouse/pricing_engine.py) and *)
(* the simulation history store (warehouse/storage.py).                    *)
(*                                                                         *)
(* Conventions.  Text is a sequence of one-character strings, so that the  *)
(* string operations of the source (find, slicing, strip, lower, `in`) are *)
(* computed and not assumed.  Indices of the string helpers are 0-based,   *)
(* as in Python.  Money is an integer number of cents.  A CSV cell is      *)
(* None (a short row: csv.DictReader fills the missing cells with None)    *)
(* or Text(t).                                                             *)
(***************************************************************************)
EXTENDS Integers, Sequences, FiniteSets, TLC

\* ------------------------------------------------------------------------
\* Generic helpers
\* ------------------------------------------------------------------------
MinOf(S) == CHOOSE x \in S : \A y \in S : x <= y
MaxOf(S) == CHOOSE x \in S : \A y \in S : x >= y
Range(s) == { s[k] : k \in DOMAIN s }

RECURSIVE SumSeq(_)
SumSeq(s) == IF s = << >> THEN 0 ELSE s[1] + SumSeq(Tail(s))

\* ------------------------------------------------------------------------
\* Python string operations used by data_loader.py
\* ------------------------------------------------------------------------
None == [k |-> "none", v |-> << >>]
Text(t) == [k |-> "text", v |-> t]

Whitespace == {" ", "\n", "\t", "\r"}
Digits == <<"0","1","2","3","4","5","6","7","8","9">>

\* str.lower(), letter by letter
LowerChar(c) ==
    CASE c = "A" -> "a" [] c = "B" -> "b" [] c = "C" -> "c" [] c = "D" -> "d"
      [] c = "E" -> "e" [] c = "F" -> "f" [] c = "G" -> "g" [] c = "H" -> "h"
      [] c = "I" -> "i" [] c = "J" -> "j" [] c = "K" -> "k" [] c = "L" -> "l"
      [] c = "M" -> "m" [] c = "N" -> "n" [] c = "O" -> "o" [] c = "P" -> "p"
      [] c = "Q" -> "q" [] c = "R" -> "r" [] c = "S" -> "s" [] c = "T" -> "t"
      [] c = "U" -> "u" [] c = "V" -> "v" [] c = "W" -> "w" [] c = "X" -> "x"
      [] c = "Y" -> "y" [] c = "Z" -> "z" [] OTHER -> c
Lower(s) == [k \in DOMAIN s |-> LowerChar(s[k])]

\* s.find(sub, start): the lowest 0-based index >= start at which sub occurs, or -1
Find(s, sub, start) ==
    LET hits == { k \in start..(Len(s) - Len(sub)) :
                    \A t \in 1..Len(sub) : s[k + t] = sub[t] }
    IN  IF hits = {} THEN -1 ELSE MinOf(hits)

\* sub in s
Contains(s, sub) == Find(s, sub, 0) >= 0

\* s[a:b] for a, b >= 0
Slice(s, a, b) ==
    LET lo == IF a > Len(s) THEN Len(s) ELSE a
        hi == IF b > Len(s) THEN Len(s) ELSE b
    IN  IF lo >= hi THEN << >> ELSE SubSeq(s, lo + 1, hi)

\* s.strip()
Strip(s) ==
    LET keep == { k \in DOMAIN s : s[k] \notin Whitespace }
    IN  IF keep = {} THEN << >> ELSE SubSeq(s, MinOf(keep), MaxOf(keep))

\* s.replace("\n", " ")
ReplaceNewlines(s) == [k \in DOMAIN s |-> IF s[k] = "\n" THEN " " ELSE s[k]]

\* str(n) for n >= 0
RECURSIVE IntToText(_)
IntToText(n) ==
    IF n < 10 THEN << Digits[n + 1] >>
    ELSE IntToText(n \div 10) \o << Digits[(n % 10) + 1] >>

DigitValue(c) == (CHOOSE d \in 1..10 : Digits[d] = c) - 1
IsDigits(s) == s # << >> /\ \A k \in DOMAIN s : s[k] \in Range(Digits)

RECURSIVE DigitsToInt(_)
DigitsToInt(s) ==
    IF s = << >> THEN 0
    ELSE 10 * DigitsToInt(SubSeq(s, 1, Len(s) - 1)) + DigitValue(s[Len(s)])

\* ------------------------------------------------------------------------
\* Category classifier
\* ------------------------------------------------------------------------
CAT_RULES ==
    << << "Coffee & Tea",
          << <<"c","o","f","f","e","e">>,
             <<"t","e","a">>,
             <<"e","s","p","r","e","s","s","o">>,
             <<"l","a","t","t","e">>,
             <<"b","r","e","w">>,
             <<"c","h","a","i">>,
             <<"m","a","t","c","h","a">> >> >>,
       << "Beverages",
          << <<"w","a","t","e","r">>,
             <<"j","u","i","c","e">>,
             <<"s","o","d","a">>,
             <<"d","r","i","n","k">>,
             <<"b","e","v","e","r","a","g","e">>,
             <<"c","o","l","a">>,
             <<"l","e","m","o","n","a","d","e">> >> >>,
       << "Snacks & Chips",
          << <<"c","h","i","p">>,
             <<"s","n","a","c","k">>,
             <<"p","r","e","t","z","e","l">>,
             <<"p","o","p","c","o","r","n">>,
             <<"c","r","a","c","k","e","r">>,
             <<"c","o","o","k","i","e">>,
             <<"n","u","t","s">> >> >>,
       << "Candy & Sweets",
          << <<"c","a","n","d","y">>,
             <<"c","h","o","c","o","l","a","t","e">>,
             <<"g","u","m">>,
             <<"m","i","n","t">>,
             <<"s","w","e","e","t">>,
             <<"g","u","m","m","y">>,
             <<"c","a","r","a","m","e","l">> >> >>,
       << "Spices & Seasoning",
          << <<"s","p","i","c","e">>,
             <<"s","e","a","s","o","n","i","n","g">>,
             <<"p","e","p","p","e","r">>,
             <<"s","a","l","t">>,
             <<"c","i","n","n","a","m","o","n">>,
             <<"c","u","m","i","n">>,
             <<"p","a","p","r","i","k","a">> >> >>,
       << "Health & Wellness",
          << <<"v","i","t","a","m","i","n">>,
             <<"s","u","p","p","l","e","m","e","n","t">>,
             <<"p","r","o","t","e","i","n">>,
             <<"o","r","g","a","n","i","c">>,
             <<"h","e","a","l","t","h">>,
             <<"p","r","o","b","i","o","t","i","c">> >> >>,
       << "Dairy & Refrigerated",
          << <<"m","i","l","k">>,
             <<"c","h","e","e","s","e">>,
             <<"y","o","g","u","r","t">>,
             <<"b","u","t","t","e","r">>,
             <<"c","r","e","a","m">>,
             <<"d","a","i","r","y">>,
             <<"e","g","g">> >> >>,
       << "Canned & Packaged",
          << <<"c","a","n","n","e","d">>,
             <<"s","o","u","p">>,
             <<"s","a","u","c","e">>,
             <<"p","a","s","t","e">>,
             <<"j","a","r">>,
             <<"b","r","o","t","h">>,
             <<"s","t","o","c","k">> >> >>,
       << "Baking & Cooking",
          << <<"f","l","o","u","r">>,
             <<"s","u","g","a","r">>,
             <<"b","a","k","i","n","g">>,
             <<"y","e","a","s","t">>,
             <<"v","a","n","i","l","l","a">>,
             <<"c","o","c","o","a">>,
             <<"m","i","x">> >> >> >>

\* _classify: the label of the first rule, in declaration order, one of whose
\* keywords occurs in the lower-cased name; "Other" when no rule matches
RECURSIVE ClassifyFrom(_, _)
ClassifyFrom(r, name_lower) ==
    IF r > Len(CAT_RULES) THEN "Other"
    ELSE IF \E k \in DOMAIN CAT_RULES[r][2] : Contains(name_lower, CAT_RULES[r][2][k])
         THEN CAT_RULES[r][1]
         ELSE ClassifyFrom(r + 1, name_lower)

\* A faulty variant: the rule whose keyword stands earliest in the name
ClassifyByPosition(name_lower) ==
    LET pos(r) == { Find(name_lower, CAT_RULES[r][2][k], 0) :
                      k \in DOMAIN CAT_RULES[r][2] } \ { -1 }
        hits == { r \in DOMAIN CAT_RULES : pos(r) # {} }
    IN  IF hits = {} THEN "Other"
        ELSE CAT_RULES[CHOOSE r \in hits :
                         \A q \in hits :
                            \/ MinOf(pos(r)) < MinOf(pos(q))
                            \/ (MinOf(pos(r)) = MinOf(pos(q)) /\ r <= q)][1]

Classify(name_lower) == ClassifyFrom(1, name_lower)

\* ------------------------------------------------------------------------
\* Field extraction
\* ------------------------------------------------------------------------
NAME_CAP == 120
BULLETS_CAP == 200
DESC_CAP == 300
FALLBACK_CAP == 80

ITEM_NAME == <<"i","t","e","m","_","n","a","m","e">>
BULLET_POINT == <<"b","u","l","l","e","t","_","p","o","i","n","t">>
PRODUCT_DESCRIPTION == <<"p","r","o","d","u","c","t","_","d","e","s","c","r","i","p","t","i","o","n">>
COLON == <<":">>

\* _fast_parse_catalog(raw) -> [name, bullets, desc]; raw is a CSV cell
FastParseCatalog(cell) ==
    IF cell.k = "none" \/ cell.v = << >>
    THEN [name |-> << >>, bullets |-> << >>, desc |-> << >>]
    ELSE
    LET raw == cell.v
        low == Lower(raw)
        ni == Find(low, ITEM_NAME, 0)
        bi == Find(low, BULLET_POINT, 0)
        di == Find(low, PRODUCT_DESCRIPTION, 0)
        nstart == Find(raw, COLON, ni) + 1
        nend == IF bi > nstart THEN bi ELSE IF di > nstart THEN di ELSE Len(raw)
        name1 == IF ni >= 0
                 THEN Slice(Strip(Slice(raw, nstart, nend)), 0, NAME_CAP)
                 ELSE << >>
        bstart == Find(raw, COLON, bi) + 1
        bend == IF di > bstart THEN di ELSE Len(raw)
        bullets == IF bi >= 0
                   THEN Slice(Strip(Slice(raw, bstart, bend)), 0, BULLETS_CAP)
                   ELSE << >>
        dstart == Find(raw, COLON, di) + 1
        desc == IF di >= 0
                THEN Slice(Strip(Slice(raw, dstart, Len(raw))), 0, DESC_CAP)
                ELSE << >>
        name == IF name1 = << >>
                THEN ReplaceNewlines(Strip(Slice(raw, 0, FALLBACK_CAP)))
                ELSE name1
    IN  [name |-> name, bullets |-> bullets, desc |-> desc]

\* ------------------------------------------------------------------------
\* Number parsing of CSV cells
\* ------------------------------------------------------------------------
\* int(cell): TypeError on None, ValueError unless the stripped text is an
\* optionally signed run of digits
IntParse(cell) ==
    IF cell.k = "none" THEN [ok |-> FALSE, exc |-> "TypeError", val |-> 0]
    ELSE
    LET t == Strip(cell.v)
        signed == t # << >> /\ t[1] \in {"-", "+"}
        body == IF signed THEN Tail(t) ELSE t
    IN  IF IsDigits(body)
        THEN [ok |-> TRUE, exc |-> "",
              val |-> IF signed /\ t[1] = "-" THEN 0 - DigitsToInt(body)
                      ELSE DigitsToInt(body)]
        ELSE [ok |-> FALSE, exc |-> "ValueError", val |-> 0]

\* float(cell), in cents: TypeError on None, ValueError unless the stripped
\* text is an optionally signed decimal numeral (digits, optionally "." and
\* digits; the modelled sources carry at most two decimals).  float() also
\* takes "nan", "inf" and exponents, which no modelled source carries; a
\* product whose price cell was "nan" is NanProduct in the pricing screen
FloatParse(cell) ==
    IF cell.k = "none" THEN [ok |-> FALSE, exc |-> "TypeError", val |-> 0]
    ELSE
    LET t == Strip(cell.v)
        signed == t # << >> /\ t[1] \in {"-", "+"}
        body == IF signed THEN Tail(t) ELSE t
        dot == Find(body, <<".">>, 0)
        whole == IF dot < 0 THEN body ELSE Slice(body, 0, dot)
        frac == IF dot < 0 THEN << >> ELSE Slice(body, dot + 1, Len(body))
        frac2 == Slice(frac \o <<"0", "0">>, 0, 2)
        wellformed == /\ (whole # << >> \/ frac # << >>)
                      /\ (whole = << >> \/ IsDigits(whole))
                      /\ (frac = << >> \/ IsDigits(frac))
        cents == 100 * DigitsToInt(whole) + DigitsToInt(frac2)
    IN  IF wellformed
        THEN [ok |-> TRUE, exc |-> "",
              val |-> IF signed /\ t[1] = "-" THEN 0 - cents ELSE cents]
        ELSE [ok |-> FALSE, exc |-> "ValueError", val |-> 0]

\* ------------------------------------------------------------------------
\* One row of the ingestion loop (data_loader.py, body of the for loop)
\* ------------------------------------------------------------------------
PRODUCT_PREFIX == <<"P","r","o","d","u","c","t"," ">>

\* price = float(row.get("price", 0)), with ValueError/TypeError -> 0.0
RowPrice(row) ==
    LET p == FloatParse(row.price) IN IF p.ok THEN p.val ELSE 0

\* The Product built from row i, or the exception that escapes the loop body:
\* int(row.get("sample_id", i)) is not guarded.
ParseRow(i, row) ==
    LET f == FastParseCatalog(row.catalog_content)
        sid == IntParse(row.sample_id)
    IN  IF ~sid.ok
        THEN [ok |-> FALSE, exc |-> sid.exc]
        ELSE [ok |-> TRUE, exc |-> "",
              product |->
                [sample_id |-> sid.val,
                 name |-> IF f.name = << >> THEN PRODUCT_PREFIX \o IntToText(i)
                          ELSE f.name,
                 price |-> RowPrice(row),
                 category |-> Classify(Lower(f.name)),
                 unit |-> row.unit,
                 bullet_points |-> f.bullets,
                 description |-> f.desc]]

\* ------------------------------------------------------------------------
\* Reservoir sampling (data_loader.py, end of the loop body)
\* ------------------------------------------------------------------------
\* Sampling capacity.  The program's value is 10_000 (data_loader.py:21); the
\* model scales it down so that sources longer than the capacity are explored.
MAX_PRODUCTS == 2

\* random.randint(a, b): every integer of [a, b]
\* A faulty variant: the upper end excluded, as random.randrange would
RandIntExclusive(a, b) == a..(b - 1)

RandInt(a, b) == a..b

\* Whether row i makes the loop draw a random slot
NeedsDraw(reservoir) == Len(reservoir) >= MAX_PRODUCTS

\* A faulty variant: the capacity test off by one
ReservoirStepOffByOne(reservoir, i, product, j) ==
    IF Len(reservoir) <= MAX_PRODUCTS
    THEN Append(reservoir, product)
    ELSE IF j < MAX_PRODUCTS
         THEN [reservoir EXCEPT ![j + 1] = product]
         ELSE reservoir

\* The reservoir after row i; j is the slot drawn when NeedsDraw
ReservoirStep(reservoir, i, product, j) ==
    IF Len(reservoir) < MAX_PRODUCTS
    THEN Append(reservoir, product)
    ELSE IF j < MAX_PRODUCTS
         THEN [reservoir EXCEPT ![j + 1] = product]
         ELSE reservoir

\* ------------------------------------------------------------------------
\* Statistics (data_loader.py, "Compute all stats in a single pass")
\* ------------------------------------------------------------------------
\* A Python dict: a sequence of <<key, value>> pairs in insertion order
DictHas(d, key) == \E n \in DOMAIN d : d[n][1] = key
DictGet(d, key, default) ==
    IF DictHas(d, key) THEN d[CHOOSE n \in DOMAIN d : d[n][1] = key][2] ELSE default
DictPut(d, key, val) ==
    IF DictHas(d, key)
    THEN [n \in DOMAIN d |-> IF d[n][1] = key THEN <<key, val>> ELSE d[n]]
    ELSE Append(d, <<key, val>>)
DictValues(d) == [n \in DOMAIN d |-> d[n][2]]
DictKeys(d) == [n \in DOMAIN d |-> d[n][1]]

\* A float quotient a / b, kept exact
Frac(a, b) == [num |-> a, den |-> b]

\* A faulty variant: the category counted only for a priced product
StatsStepPricedOnly(acc, p) ==
    LET c == p.category
    IN  IF p.price > 0
        THEN [acc EXCEPT
                !.cat_counts = DictPut(@, c, DictGet(@, c, 0) + 1),
                !.prices = Append(@, p.price),
                !.cat_sums = DictPut(@, c, DictGet(@, c, 0) + p.price),
                !.cat_cnts = DictPut(@, c, DictGet(@, c, 0) + 1),
                !.cat_mins = IF ~DictHas(@, c) \/ p.price < DictGet(@, c, 0)
                             THEN DictPut(@, c, p.price) ELSE @,
                !.cat_maxs = IF ~DictHas(@, c) \/ p.price > DictGet(@, c, 0)
                             THEN DictPut(@, c, p.price) ELSE @]
        ELSE acc

\* One iteration of "for p in reservoir"
StatsStep(acc, p) ==
    LET c == p.category
        counted == [acc EXCEPT !.cat_counts = DictPut(@, c, DictGet(@, c, 0) + 1)]
    IN  IF p.price > 0
        THEN [counted EXCEPT
                !.prices = Append(@, p.price),
                !.cat_sums = DictPut(@, c, DictGet(@, c, 0) + p.price),
                !.cat_cnts = DictPut(@, c, DictGet(@, c, 0) + 1),
                !.cat_mins = IF ~DictHas(@, c) \/ p.price < DictGet(@, c, 0)
                             THEN DictPut(@, c, p.price) ELSE @,
                !.cat_maxs = IF ~DictHas(@, c) \/ p.price > DictGet(@, c, 0)
                             THEN DictPut(@, c, p.price) ELSE @]
        ELSE counted

RECURSIVE StatsSweep(_, _)
StatsSweep(acc, reservoir) ==
    IF reservoir = << >> THEN acc
    ELSE StatsSweep(StatsStep(acc, Head(reservoir)), Tail(reservoir))

\* sorted(items, key=lambda x: x[1], reverse=True): stable, descending by count
RECURSIVE InsertByCountDesc(_, _)
\* A faulty variant: an item put before the items of its own count
InsertByCountDescUnstable(sorted, item) ==
    IF sorted = << >> THEN << item >>
    ELSE IF Head(sorted)[2] > item[2]
         THEN << Head(sorted) >> \o InsertByCountDesc(Tail(sorted), item)
         ELSE << item >> \o sorted

InsertByCountDesc(sorted, item) ==
    IF sorted = << >> THEN << item >>
    ELSE IF Head(sorted)[2] >= item[2]
         THEN << Head(sorted) >> \o InsertByCountDesc(Tail(sorted), item)
         ELSE << item >> \o sorted

RECURSIVE SortByCountDesc(_)
SortByCountDesc(items) ==
    IF items = << >> THEN << >>
    ELSE InsertByCountDesc(SortByCountDesc(SubSeq(items, 1, Len(items) - 1)),
                           items[Len(items)])

\* prices.sort()
RECURSIVE InsertAsc(_, _)
InsertAsc(sorted, x) ==
    IF sorted = << >> THEN << x >>
    ELSE IF Head(sorted) <= x
         THEN << Head(sorted) >> \o InsertAsc(Tail(sorted), x)
         ELSE << x >> \o sorted

RECURSIVE SortAsc(_)
SortAsc(s) ==
    IF s = << >> THEN << >>
    ELSE InsertAsc(SortAsc(SubSeq(s, 1, Len(s) - 1)), s[Len(s)])

\* A faulty variant: the lower median of an even count
MedianOfLower(prices) == prices[((Len(prices) - 1) \div 2) + 1]

\* prices[len(prices) // 2] of the sorted prices
MedianOf(prices) == prices[(Len(prices) \div 2) + 1]

\* PrecomputedData(): the dataclass defaults (data_loader.py:79-95)
EmptyData ==
    [products |-> << >>,
     category_counts |-> << >>,
     category_avg_prices |-> << >>,
     category_min_prices |-> << >>,
     category_max_prices |-> << >>,
     total_products |-> 0,
     total_in_csv |-> 0,
     priced_products |-> 0,
     avg_price |-> Frac(0, 1),
     median_price |-> 0,
     min_price |-> 0,
     max_price |-> 0,
     std_price |-> Frac(0, 1),
     zero_price_count |-> 0]

\* The snapshot built from the finished reservoir.  std_price holds the
\* radicand of the source's square root (the population variance).
ComputeStats(reservoir, total_rows) ==
    LET acc == StatsSweep([cat_counts |-> << >>, cat_sums |-> << >>,
                           cat_cnts |-> << >>, cat_mins |-> << >>,
                           cat_maxs |-> << >>, prices |-> << >>], reservoir)
        prices == SortAsc(acc.prices)
        n == Len(prices)
        total == SumSeq(prices)
        sumsq == SumSeq([k \in DOMAIN prices |-> prices[k] * prices[k]])
        base == [EmptyData EXCEPT
                   !.products = reservoir,
                   !.total_products = Len(reservoir),
                   !.total_in_csv = total_rows,
                   !.category_counts = SortByCountDesc(acc.cat_counts),
                   !.category_avg_prices =
                       [k \in DOMAIN acc.cat_cnts |->
                          << acc.cat_cnts[k][1],
                             Frac(DictGet(acc.cat_sums, acc.cat_cnts[k][1], 0),
                                  acc.cat_cnts[k][2]) >>],
                   !.category_min_prices = acc.cat_mins,
                   !.category_max_prices = acc.cat_maxs,
                   !.priced_products = n,
                   !.zero_price_count = Len(reservoir) - n]
    IN  IF n > 0
        THEN [base EXCEPT
                !.avg_price = Frac(total, n),
                !.median_price = MedianOf(prices),
                !.min_price = prices[1],
                !.max_price = prices[n],
                !.std_price = Frac(n * sumsq - total * total, n * n)]
        ELSE base

\* ------------------------------------------------------------------------
\* Sources: the CSV files the model ingests
\* ------------------------------------------------------------------------
MaxRows == 3

Row(sid, price, catalog, unit) ==
    [sample_id |-> sid, price |-> price, catalog_content |-> catalog, unit |-> unit]

\* a well-formed priced row
RowTea == Row(Text(<<"1">>), Text(<<"1","0",".","0","0">>), Text(<<"i","t","e","m","_","n","a","m","e",":"," ","T","e","a">>), Text(<<"o","z">>))
\* a second priced row, markers out of order
RowMilk == Row(Text(<<"2">>), Text(<<"2","5">>), Text(<<"b","u","l","l","e","t","_","p","o","i","n","t",":"," ","f","r","e","s","h"," ","i","t","e","m","_","n","a","m","e",":"," ","M","i","l","k">>), Text(<<"l">>))
\* no markers and an unparsable price
RowBox == Row(Text(<<"3">>), Text(<<"a","b","c">>), Text(<<"M","y","s","t","e","r","y"," ","B","o","x">>), Text(<<"c","t">>))
\* a short row: every cell after sample_id is missing
RowShort == Row(Text(<<"4">>), None, None, None)
\* a sample_id that is not an integer
RowBadId == Row(Text(<<"x","5">>), Text(<<"5",".","5","0">>), Text(<<"i","t","e","m","_","n","a","m","e",":"," ","C","h","a","i">>), Text(<<"g">>))

\* names in which rules of the classifier compete: a keyword of a later rule
\* standing before the keyword of an earlier one, a keyword inside a longer
\* word and in capitals, and a name no rule matches
RowChai == Row(Text(<<"1","1">>), Text(<<"4",".","5","0">>), Text(<<"i","t","e","m","_","n","a","m","e",":"," ","O","r","g","a","n","i","c"," ","C","h","a","i"," ","T","e","a"," ","B","a","g","s">>), Text(<<"o","z">>))
RowChips == Row(Text(<<"1","2">>), Text(<<"3",".","2","5">>), Text(<<"i","t","e","m","_","n","a","m","e",":"," ","S","e","a"," ","S","a","l","t"," ","C","h","i","p","s">>), Text(<<"o","z">>))
RowSteak == Row(Text(<<"1","3">>), Text(<<"7",".","0","0">>), Text(<<"i","t","e","m","_","n","a","m","e",":"," ","S","T","E","A","K"," ","S","a","u","c","e">>), Text(<<"o","z">>))
RowGift == Row(Text(<<"1","4">>), Text(<<"9",".","9","9">>), Text(<<"i","t","e","m","_","n","a","m","e",":"," ","G","i","f","t"," ","B","o","x">>), Text(<<"o","z">>))
NameRows == {RowChai, RowChips, RowSteak, RowGift}

RowKinds == {RowTea, RowMilk, RowBox, RowShort, RowBadId}

RECURSIVE SeqsUpTo(_, _)
SeqsUpTo(S, n) ==
    IF n = 0 THEN { << >> }
    ELSE LET shorter == SeqsUpTo(S, n - 1)
         IN  shorter \cup { Append(s, x) : s \in { t \in shorter : Len(t) = n - 1 }, x \in S }

Sources == SeqsUpTo(RowKinds, MaxRows)

CellSize(cell) == IF cell.k = "none" THEN 0 ELSE Len(cell.v)
\* st_size: the bytes of the rows (cells, separators, line ends)
CsvSize(rows) ==
    SumSeq([k \in DOMAIN rows |->
              CellSize(rows[k].sample_id) + CellSize(rows[k].price)
              + CellSize(rows[k].catalog_content) + CellSize(rows[k].unit) + 4])

\* ------------------------------------------------------------------------
\* Snapshot cache (data_loader.py:98-122, 199-203)
\* ------------------------------------------------------------------------
\* st_mtime is a float; the model counts it in ticks of 1/Subsec second
Subsec == 2

\* A faulty variant: the modification time not truncated to seconds
CacheKeyRawMtime(s) == << s.name, s.size, s.mtime, MAX_PRODUCTS >>

\* _cache_key: the name, size, whole-second mtime and capacity.  The source
\* formats them into one string (injective: size, mtime and capacity are
\* digit runs) and names the file by 12 hex digits of its md5; the model
\* keeps the formatted key itself as the file's identity.
CacheKey(s) == << s.name, s.size, s.mtime \div Subsec, MAX_PRODUCTS >>

\* What a cache file holds
Pickled(data) == [kind |-> "pickle", cls |-> "PrecomputedData", obj |-> data]
Garbage == [kind |-> "garbage", cls |-> "", obj |-> EmptyData]
WrongType == [kind |-> "pickle", cls |-> "dict", obj |-> EmptyData]

\* pickle.load(f): the object, or the exception of a blob that is no pickle
Unpickle(blob) ==
    IF blob.kind = "pickle"
    THEN [ok |-> TRUE, exc |-> "", cls |-> blob.cls, obj |-> blob.obj]
    ELSE [ok |-> FALSE, exc |-> "UnpicklingError", cls |-> "", obj |-> EmptyData]

\* A faulty variant: the failure of pickle.load not caught
CacheLookupUncaught(files, key) ==
    IF key \notin DOMAIN files THEN [hit |-> FALSE, data |-> EmptyData, exc |-> ""]
    ELSE LET u == Unpickle(files[key])
         IN  IF u.ok /\ u.cls = "PrecomputedData" /\ u.obj.total_products > 0
             THEN [hit |-> TRUE, data |-> u.obj, exc |-> ""]
             ELSE [hit |-> FALSE, data |-> EmptyData, exc |-> u.exc]

\* Lines 115-122: the stored snapshot, when the file exists, unpickles to a
\* PrecomputedData and holds at least one product; "except Exception: pass"
\* turns every failure into a miss.  exc is the exception that escapes.
CacheLookup(files, key) ==
    IF key \notin DOMAIN files THEN [hit |-> FALSE, data |-> EmptyData, exc |-> ""]
    ELSE LET u == Unpickle(files[key])
         IN  IF u.ok /\ u.cls = "PrecomputedData" /\ u.obj.total_products > 0
             THEN [hit |-> TRUE, data |-> u.obj, exc |-> ""]
             ELSE [hit |-> FALSE, data |-> EmptyData, exc |-> ""]

\* Lines 199-203: the write is attempted, and a failure is swallowed
CacheStore(dir, files, key, data) ==
    IF dir = "ok" THEN (key :> Pickled(data)) @@ files ELSE files

\* ------------------------------------------------------------------------
\* State
\* ------------------------------------------------------------------------
MaxLoads == 2
MaxEnvEvents == 1

VARIABLES
    \* the file system
    src,          \* the CSV source: [exists, readable, name, size, mtime, rows]
    cachedir,     \* CACHE_DIR: "missing", "ok", "readonly" or "blocked" (cannot be created)
    cache,        \* the cache files: cache key -> blob
    \* a call of load_and_cache, possibly under WarehouseApp._load_data
    pc,           \* "idle", "sampling" (inside the row loop) or "done"
    caller,       \* "app" (_load_data), "direct" (load_and_cache itself) or "reload"
    cache_path,   \* the local `cache`: the key computed on entry
    reservoir,    \* the local `reservoir`
    total_rows,   \* the local `total_rows`
    lac,          \* how load_and_cache ended: its return value or its exception
    app_data,     \* WarehouseApp.data
    app_exc,      \* the exception that escaped the last application operation, or ""
    app_view,     \* the attributes WarehouseApp copies from its snapshot for the screens
    rand_calls,   \* draws made so far on the module-level random generator
    stored,       \* the last snapshot load_and_cache wrote: [valid, fp, path, data]
    nloads,       \* calls started
    nenv          \* file-system events so far

loaderVars == << src, cachedir, cache, pc, caller, cache_path, reservoir,
                 total_rows, lac, app_data, app_exc, app_view, rand_calls, stored, nloads, nenv >>

EmptyFiles == [k \in {} |-> Garbage]

NoCall == [kind |-> "none", via |-> "", data |-> EmptyData, exc |-> ""]
Returned(via, data) == [kind |-> "data", via |-> via, data |-> data, exc |-> ""]
Raised(exc) == [kind |-> "exception", via |-> "", data |-> EmptyData, exc |-> exc]

SOURCE_NAME == "train.csv"

NothingStored ==
    [valid |-> FALSE, fp |-> << SOURCE_NAME, 0, 0, 0 >>,
     path |-> << SOURCE_NAME, 0, 0, 0 >>, data |-> EmptyData]

\* WarehouseApp.__init__, lines 50-57: the convenience aliases, all taken from
\* the snapshot just loaded; constructed tells that __init__ has run
ConvenienceAliases(data) ==
    [constructed |-> TRUE,
     products |-> data.products,
     category_counts |-> data.category_counts,
     total_products |-> data.total_products,
     priced_products |-> data.priced_products,
     avg_price |-> data.avg_price,
     min_price |-> data.min_price,
     max_price |-> data.max_price,
     zero_price_count |-> data.zero_price_count]

\* WarehouseApp.reload_data, lines 114-115: the aliases it assigns again
ReloadAliases(view, data) ==
    [view EXCEPT !.products = data.products,
                 !.category_counts = data.category_counts]

\* Before __init__ has run
NoAliases == [ConvenienceAliases(EmptyData) EXCEPT !.constructed = FALSE]

InitLoader(S) ==
    /\ \E rows \in S :
         src = [exists |-> TRUE, readable |-> TRUE, name |-> SOURCE_NAME,
                size |-> CsvSize(rows), mtime |-> 0, rows |-> rows]
    /\ cachedir = "missing"
    /\ cache = EmptyFiles
    /\ pc = "idle"
    /\ caller = "app"
    /\ cache_path = CacheKey(src)
    /\ reservoir = << >>
    /\ total_rows = 0
    /\ lac = NoCall
    /\ app_data = EmptyData
    /\ app_exc = ""
    /\ app_view = NoAliases
    /\ rand_calls = 0
    /\ stored = NothingStored
    /\ nloads = 0
    /\ nenv = 0

\* ------------------------------------------------------------------------
\* load_and_cache, lines 111-128: up to the opening of the source
\* ------------------------------------------------------------------------
\* CACHE_DIR.mkdir(parents=True, exist_ok=True)
Mkdir(dir) == IF dir = "missing" THEN "ok" ELSE dir

\* What the entry of load_and_cache does: it raises (the mkdir, the stat of
\* _cache_key, the cache read or the open of the source), or returns the
\* cached snapshot, or enters the row loop
LacEnter(s, dir, files) ==
    IF dir = "blocked"
    THEN [next |-> "raise", exc |-> "OSError", dir |-> dir, data |-> EmptyData]
    ELSE IF ~s.exists
    THEN [next |-> "raise", exc |-> "FileNotFoundError", dir |-> Mkdir(dir),
          data |-> EmptyData]
    ELSE LET found == CacheLookup(files, CacheKey(s))
         IN  IF found.exc # ""
             THEN [next |-> "raise", exc |-> found.exc, dir |-> Mkdir(dir),
                   data |-> EmptyData]
             ELSE IF found.hit
             THEN [next |-> "hit", exc |-> "", dir |-> Mkdir(dir), data |-> found.data]
             ELSE IF ~s.readable
             THEN [next |-> "raise", exc |-> "PermissionError", dir |-> Mkdir(dir),
                   data |-> EmptyData]
             ELSE [next |-> "loop", exc |-> "", dir |-> Mkdir(dir), data |-> EmptyData]

\* A faulty variant: no try/except around load_and_cache
LoadDataResultUncaught(result) ==
    IF result.kind = "data" THEN [data |-> result.data, exc |-> ""]
    ELSE [data |-> EmptyData, exc |-> result.exc]

\* _load_data, lines 82-85: what it hands to self.data given how
\* load_and_cache ended, and the exception it lets through
LoadDataResult(result) ==
    IF result.kind = "data" THEN [data |-> result.data, exc |-> ""]
    ELSE [data |-> EmptyData, exc |-> ""]

\* The end of a call for caller c: self.data and the escaped exception.
\* A direct call leaves the application alone.
AppDataAfter(c, result, current) ==
    IF c = "direct" THEN current
    ELSE IF LoadDataResult(result).exc # "" THEN current
    ELSE LoadDataResult(result).data
AppExcAfter(c, result) ==
    IF c = "direct" THEN "" ELSE LoadDataResult(result).exc
\* The aliases once caller c has assigned self.data = data
AliasesOn(c, data, view) ==
    IF c = "app" THEN ConvenienceAliases(data)
    ELSE IF c = "reload" THEN ReloadAliases(view, data)
    ELSE view
AppViewAfter(c, result, view) ==
    IF c = "direct" \/ LoadDataResult(result).exc # "" THEN view
    ELSE AliasesOn(c, LoadDataResult(result).data, view)

\* The call of load_and_cache by caller c, the cache directory holding files
EnterLoad(c, files) ==
    LET e == LacEnter(src, cachedir, files)
        result == IF e.next = "raise" THEN Raised(e.exc)
                  ELSE IF e.next = "hit" THEN Returned("hit", e.data)
                  ELSE NoCall
    IN  /\ caller' = c
        /\ cachedir' = e.dir
        /\ cache_path' = IF e.exc \in {"OSError", "FileNotFoundError"}
                         THEN cache_path ELSE CacheKey(src)
        /\ reservoir' = << >>
        /\ total_rows' = 0
        /\ lac' = result
        /\ pc' = IF e.next = "loop" THEN "sampling" ELSE "done"
        /\ app_data' = IF e.next = "loop" THEN app_data
                       ELSE AppDataAfter(c, result, app_data)
        /\ app_exc' = IF e.next = "loop" THEN "" ELSE AppExcAfter(c, result)
        /\ app_view' = IF e.next = "loop" THEN app_view
                       ELSE AppViewAfter(c, result, app_view)

\* WarehouseApp._load_data for caller c: no CSV file found -> PrecomputedData(),
\* else load_and_cache(target) under try/except
EnterLoadData(c, files) ==
    IF ~src.exists
    THEN /\ app_data' = EmptyData
         /\ app_exc' = ""
         /\ app_view' = AliasesOn(c, EmptyData, app_view)
         /\ lac' = NoCall
         /\ caller' = c
         /\ pc' = "done"
         /\ UNCHANGED << cachedir, cache_path, reservoir, total_rows >>
    ELSE EnterLoad(c, files)

\* self.data = self._load_data()  (WarehouseApp.__init__)
LoadData ==
    /\ pc = "idle"
    /\ nloads < MaxLoads
    /\ nloads' = nloads + 1
    /\ EnterLoadData("app", cache)
    /\ UNCHANGED << src, cache, rand_calls, stored, nenv >>

\* load_and_cache(csv_path) called on its own
LoadDirect ==
    /\ pc = "idle"
    /\ nloads < MaxLoads
    /\ nloads' = nloads + 1
    /\ EnterLoad("direct", cache)
    /\ UNCHANGED << src, cache, rand_calls, stored, nenv >>

\* WarehouseApp.reload_data: unlink every cache file, then _load_data
ReloadData ==
    /\ pc = "idle"
    /\ nloads < MaxLoads
    /\ nloads' = nloads + 1
    /\ IF cachedir = "readonly" /\ DOMAIN cache # {}
       THEN \* f.unlink raises: nothing is deleted, nothing is loaded
            /\ app_exc' = "OSError(unlink)"
            /\ pc' = "done"
            /\ caller' = "reload"
            /\ lac' = NoCall
            /\ UNCHANGED << cache, cachedir, cache_path, reservoir, total_rows, app_data, app_view >>
       ELSE /\ cache' = EmptyFiles
            /\ EnterLoadData("reload", EmptyFiles)
    /\ UNCHANGED << src, rand_calls, stored, nenv >>

\* ------------------------------------------------------------------------
\* load_and_cache, lines 130-205: the row loop, the statistics, the store
\* ------------------------------------------------------------------------
\* One iteration of "for i, row in enumerate(reader)"
ReadRow ==
    /\ pc = "sampling"
    /\ total_rows < Len(src.rows)
    /\ LET i == total_rows
           r == ParseRow(i, src.rows[i + 1])
       IN  IF ~r.ok
           THEN \* the exception leaves load_and_cache
                /\ lac' = Raised(r.exc)
                /\ app_data' = AppDataAfter(caller, Raised(r.exc), app_data)
                /\ app_exc' = AppExcAfter(caller, Raised(r.exc))
                /\ app_view' = AppViewAfter(caller, Raised(r.exc), app_view)
                /\ pc' = "done"
                /\ reservoir' = << >>
                /\ total_rows' = 0
                /\ UNCHANGED rand_calls
           ELSE /\ total_rows' = total_rows + 1
                /\ IF NeedsDraw(reservoir)
                   THEN /\ \E j \in RandInt(0, i) :
                              reservoir' = ReservoirStep(reservoir, i, r.product, j)
                        /\ rand_calls' = rand_calls + 1
                   ELSE /\ reservoir' = ReservoirStep(reservoir, i, r.product, 0)
                        /\ UNCHANGED rand_calls
                /\ UNCHANGED << lac, app_data, app_exc, app_view, pc >>
    /\ UNCHANGED << src, cachedir, cache, caller, cache_path, stored, nloads, nenv >>

\* The source is exhausted: statistics, cache write, return
Finish ==
    /\ pc = "sampling"
    /\ total_rows = Len(src.rows)
    /\ LET data == ComputeStats(reservoir, total_rows)
       IN  /\ cache' = CacheStore(cachedir, cache, cache_path, data)
           /\ stored' = IF cachedir = "ok"
                        THEN [valid |-> TRUE,
                              fp |-> << src.name, src.size, src.mtime \div Subsec, MAX_PRODUCTS >>,
                              path |-> cache_path, data |-> data]
                        ELSE stored
           /\ lac' = Returned("computed", data)
           /\ app_data' = AppDataAfter(caller, Returned("computed", data), app_data)
           /\ app_exc' = AppExcAfter(caller, Returned("computed", data))
           /\ app_view' = AppViewAfter(caller, Returned("computed", data), app_view)
    /\ pc' = "done"
    /\ reservoir' = << >>
    /\ total_rows' = 0
    /\ UNCHANGED << src, cachedir, caller, cache_path, rand_calls, nloads, nenv >>

\* The caller goes on
Idle ==
    /\ pc = "done"
    /\ pc' = "idle"
    /\ UNCHANGED << src, cachedir, cache, caller, cache_path, reservoir, total_rows,
                    lac, app_data, app_exc, app_view, rand_calls, stored, nloads, nenv >>

\* ------------------------------------------------------------------------
\* The file system changes between calls
\* ------------------------------------------------------------------------
EnvFrame == UNCHANGED << pc, caller, cache_path, reservoir, total_rows, lac,
                         app_data, app_exc, app_view, rand_calls, stored, nloads >>

\* chmod of the source
EnvChmod ==
    /\ pc = "idle" /\ nenv < MaxEnvEvents /\ src.exists
    /\ src' = [src EXCEPT !.readable = ~@]
    /\ nenv' = nenv + 1
    /\ UNCHANGED << cachedir, cache >>
    /\ EnvFrame

\* the source is deleted
EnvRemove ==
    /\ pc = "idle" /\ nenv < MaxEnvEvents /\ src.exists
    /\ src' = [src EXCEPT !.exists = FALSE]
    /\ nenv' = nenv + 1
    /\ UNCHANGED << cachedir, cache >>
    /\ EnvFrame

\* the source's modification time moves on, by a tick or by a whole second
EnvTouch ==
    /\ pc = "idle" /\ nenv < MaxEnvEvents /\ src.exists
    /\ \E d \in {1, Subsec} : src' = [src EXCEPT !.mtime = @ + d]
    /\ nenv' = nenv + 1
    /\ UNCHANGED << cachedir, cache >>
    /\ EnvFrame

\* a cache file is truncated, overwritten or replaced by another pickle
EnvDamageCache ==
    /\ pc = "idle" /\ nenv < MaxEnvEvents /\ cachedir = "ok"
    /\ \E k \in DOMAIN cache, blob \in {Garbage, WrongType} :
          /\ cache[k] # blob
          /\ cache' = [cache EXCEPT ![k] = blob]
    /\ nenv' = nenv + 1
    /\ UNCHANGED << src, cachedir >>
    /\ EnvFrame

\* the cache directory is removed, created, remounted read-only or made
\* impossible to create; its files go with it when it goes
EnvCacheDir ==
    /\ pc = "idle" /\ nenv < MaxEnvEvents
    /\ \E d \in {"missing", "ok", "readonly", "blocked"} \ {cachedir} :
          /\ cachedir' = d
          /\ cache' = IF d \in {"ok", "readonly"} /\ cachedir \in {"ok", "readonly"}
                      THEN cache ELSE EmptyFiles
    /\ nenv' = nenv + 1
    /\ UNCHANGED src
    /\ EnvFrame


\* ------------------------------------------------------------------------
\* Pricing engine (pricing_engine.py)
\*
\* Units.  Prices are cents; user_engagement, seasonal_factor, the reward
\* weights and price_adjustment_range are hundredths; demand_elasticity is a
\* negative whole number -k, held as k.  The floating-point reward is
\* computed in fixed point: ratios in 1/10000, reward terms in millionths,
\* each division truncating.  round(x, n) is rounding to the nearest multiple,
\* ties to the even one.
\* ------------------------------------------------------------------------
\* a / b rounded to the nearest integer, ties to even (b > 0)
RoundDiv(a, b) ==
    LET q == a \div b
        r == a % b
    IN  IF 2 * r < b THEN q
        ELSE IF 2 * r > b THEN q + 1
        ELSE IF q % 2 = 0 THEN q ELSE q + 1

Max2(a, b) == IF a >= b THEN a ELSE b
Min2(a, b) == IF a <= b THEN a ELSE b
Abs(a) == IF a < 0 THEN 0 - a ELSE a

\* A faulty variant: cut to whole cents, with no floor at one cent
TruncCents(num, den) == num \div den

\* round(max(0.01, x), 2) for x = num / den cents
FloorRoundCents(num, den) == IF num < den THEN 1 ELSE RoundDiv(num, den)

\* AppSettings() (models.py:113-129)
DefaultSettings ==
    [alpha |-> 40, beta |-> 25, gamma |-> 20, delta |-> 15,
     default_steps |-> 30, price_adjustment_range |-> 15,
     max_catalog_rows |-> 500, theme |-> "warehouse_dark"]

\* (price / base_price) ** elasticity in 1/10000, elasticity = -k
RECURSIVE RatioPow(_, _, _)
RatioPow(base, price, k) ==
    IF k = 0 THEN 10000
    ELSE (RatioPow(base, price, k - 1) * base) \div price

\* _demand_function, as demand * seasonal * engagement in 1/10000 of a unit
\* of demand per 100 (base_demand = 100.0 is folded into the profit below)
DemandRatio(price, base_price, k) ==
    IF base_price <= 0 \/ price <= 0 THEN 0
    ELSE Max2(0, RatioPow(base_price, price, k))

\* A faulty variant: the distance to the competitor penalised on both sides
ComputeRewardBothSides(s, old_price, new_price, market) ==
    LET cur == market.current_price
        margin == 10 * new_price - 6 * cur
        ratio == DemandRatio(new_price, cur, market.demand_elasticity)
        norm == Max2(1, cur)
        t1 == (margin * ratio) \div norm
        t2 == (t1 * market.seasonal_factor) \div 100
        r_profit == (t2 * market.user_engagement) \div 10
        comp_diff == Abs(new_price - market.competitor_price)
        comp_rel == (comp_diff * 10000) \div Max2(100, market.competitor_price)
        p_competitive == (comp_rel * comp_rel) \div 100
        change_rel == (Abs(new_price - old_price) * 10000) \div Max2(100, old_price)
        p_stability == (change_rel * change_rel) \div 100
        inv == market.inventory_level
        p_inventory == IF inv < 20 THEN ((20 - inv) * (20 - inv) * 1000000) \div 400
                       ELSE IF inv > 400 THEN ((inv - 400) * (inv - 400) * 25) \div 4
                       ELSE 0
        total == (s.alpha * r_profit) \div 100 - (s.beta * p_competitive) \div 100
                 - (s.gamma * p_stability) \div 100 - (s.delta * p_inventory) \div 100
    IN  [total |-> total, profit |-> r_profit, competitive |-> p_competitive,
         stability |-> p_stability, inventory |-> p_inventory]

\* compute_reward: [total, profit, competitive, stability, inventory], millionths
ComputeReward(s, old_price, new_price, market) ==
    LET cur == market.current_price
        \* new_price - cost, in tenths of a cent: cost = 0.60 * current_price
        margin == 10 * new_price - 6 * cur
        ratio == DemandRatio(new_price, cur, market.demand_elasticity)
        \* profit / max(1.0, current_price * 100)
        norm == Max2(1, cur)
        t1 == (margin * ratio) \div norm
        t2 == (t1 * market.seasonal_factor) \div 100
        r_profit == (t2 * market.user_engagement) \div 10
        comp_diff == Max2(0, new_price - market.competitor_price)
        comp_rel == (comp_diff * 10000) \div Max2(100, market.competitor_price)
        p_competitive == (comp_rel * comp_rel) \div 100
        change_rel == (Abs(new_price - old_price) * 10000) \div Max2(100, old_price)
        p_stability == (change_rel * change_rel) \div 100
        inv == market.inventory_level
        p_inventory == IF inv < 20 THEN ((20 - inv) * (20 - inv) * 1000000) \div 400
                       ELSE IF inv > 400 THEN ((inv - 400) * (inv - 400) * 25) \div 4
                       ELSE 0
        total == (s.alpha * r_profit) \div 100 - (s.beta * p_competitive) \div 100
                 - (s.gamma * p_stability) \div 100 - (s.delta * p_inventory) \div 100
    IN  [total |-> total, profit |-> r_profit, competitive |-> p_competitive,
         stability |-> p_stability, inventory |-> p_inventory]

\* The ten candidates of suggest_price, each round(max(0.01, cp), 2)
Candidates(s, market) ==
    LET base == market.current_price
        rng == s.price_adjustment_range
        comp == market.competitor_price
    IN  << FloorRoundCents(base, 1),
           FloorRoundCents(base * (10000 - rng * 25), 10000),
           FloorRoundCents(base * (10000 - rng * 50), 10000),
           FloorRoundCents(base * (10000 - rng * 75), 10000),
           FloorRoundCents(base * (10000 + rng * 25), 10000),
           FloorRoundCents(base * (10000 + rng * 50), 10000),
           FloorRoundCents(base * (10000 + rng * 75), 10000),
           FloorRoundCents(comp, 1),
           FloorRoundCents(comp * 98, 100),
           FloorRoundCents(comp * 102, 100) >>

\* The loop of suggest_price over candidates n..10: the first candidate whose
\* reward is strictly above the best so far replaces it
RECURSIVE BestFrom(_, _, _, _, _, _)
BestFromLast(s, market, cands, n, best_price, best_reward) ==
    IF n > Len(cands) THEN best_price
    ELSE LET reward == ComputeReward(s, market.current_price, cands[n], market).total
         IN  IF best_reward.set /\ reward < best_reward.val
             THEN BestFrom(s, market, cands, n + 1, best_price, best_reward)
             ELSE BestFrom(s, market, cands, n + 1, cands[n],
                           [set |-> TRUE, val |-> reward])
BestFrom(s, market, cands, n, best_price, best_reward) ==
    IF n > Len(cands) THEN best_price
    ELSE LET reward == ComputeReward(s, market.current_price, cands[n], market).total
         IN  IF best_reward.set /\ reward <= best_reward.val
             THEN BestFrom(s, market, cands, n + 1, best_price, best_reward)
             ELSE BestFrom(s, market, cands, n + 1, cands[n],
                           [set |-> TRUE, val |-> reward])

\* A faulty variant: the current price kept, whatever the candidates score
SuggestPriceKeepBase(s, market) == FloorRoundCents(market.current_price, 1)

\* suggest_price; best_reward starts at float("-inf")
SuggestPrice(s, market) ==
    BestFrom(s, market, Candidates(s, market), 1, market.current_price,
             [set |-> FALSE, val |-> 0])

\* One draw of the engine's generator per use in simulate_step:
\* randint(-30, 30); uniform(-0.05, 0.05), uniform(-0.1, 0.1) and
\* uniform(-0.03, 0.03) in thousandths
DrawVecs ==
    { [inv |-> -30, eng |-> -50, seas |-> -100, comp |-> -30],
      [inv |-> 7, eng |-> 4, seas |-> -6, comp |-> 5],
      [inv |-> 30, eng |-> 50, seas |-> 100, comp |-> 30] }

SimulateStepUnclamped(s, product, market, old_price, d, t) ==
    LET new_price == SuggestPrice(s, market)
        r == ComputeReward(s, old_price, new_price, market)
        action == [product_id |-> product.sample_id,
                   old_price |-> old_price,
                   new_price |-> new_price,
                   reward |-> RoundDiv(r.total, 100),
                   profit_component |-> RoundDiv(r.profit, 100),
                   competitive_component |-> RoundDiv(r.competitive, 100),
                   stability_component |-> RoundDiv(r.stability, 100),
                   inventory_component |-> RoundDiv(r.inventory, 100),
                   step |-> 0,
                   timestamp |-> t]
        new_inv == market.inventory_level + d.inv
        new_engagement == 10 * market.user_engagement + d.eng
        new_seasonal == 10 * market.seasonal_factor + d.seas
        new_comp == FloorRoundCents(market.competitor_price * (1000 + d.comp), 1000)
        new_market == [product_id |-> product.sample_id,
                       current_price |-> new_price,
                       competitor_price |-> new_comp,
                       inventory_level |-> new_inv,
                       user_engagement |-> RoundDiv(new_engagement, 10),
                       seasonal_factor |-> RoundDiv(new_seasonal, 10),
                       demand_elasticity |-> market.demand_elasticity,
                       timestamp |-> t]
    IN  [action |-> action, market |-> new_market]

\* simulate_step: the action and the next market, d the four draws, t what
\* datetime.now() reads when the two records are built (models.py:50-52, 71-73)
SimulateStep(s, product, market, old_price, d, t) ==
    LET new_price == SuggestPrice(s, market)
        r == ComputeReward(s, old_price, new_price, market)
        action == [product_id |-> product.sample_id,
                   old_price |-> old_price,
                   new_price |-> new_price,
                   reward |-> RoundDiv(r.total, 100),
                   profit_component |-> RoundDiv(r.profit, 100),
                   competitive_component |-> RoundDiv(r.competitive, 100),
                   stability_component |-> RoundDiv(r.stability, 100),
                   inventory_component |-> RoundDiv(r.inventory, 100),
                   step |-> 0,
                   timestamp |-> t]
        new_inv == Max2(0, market.inventory_level + d.inv)
        new_engagement == Max2(50, Min2(1000, 10 * market.user_engagement + d.eng))
        new_seasonal == Max2(300, Min2(2500, 10 * market.seasonal_factor + d.seas))
        new_comp == FloorRoundCents(market.competitor_price * (1000 + d.comp), 1000)
        new_market == [product_id |-> product.sample_id,
                       current_price |-> new_price,
                       competitor_price |-> new_comp,
                       inventory_level |-> new_inv,
                       user_engagement |-> RoundDiv(new_engagement, 10),
                       seasonal_factor |-> RoundDiv(new_seasonal, 10),
                       demand_elasticity |-> market.demand_elasticity,
                       timestamp |-> t]
    IN  [action |-> action, market |-> new_market]

\* steps = steps or self.settings.default_steps
NoSteps == [given |-> FALSE, n |-> 0]
StepsArg(n) == [given |-> TRUE, n |-> n]
EffectiveStepsDefault(arg, s) == s.default_steps
EffectiveSteps(arg, s) ==
    IF arg.given /\ arg.n # 0 THEN arg.n ELSE s.default_steps

\* ------------------------------------------------------------------------
\* run_simulation as a process (pricing_engine.py:168-210)
\* ------------------------------------------------------------------------
MaxSteps == 3
MaxRuns == 2
MaxEngines == 2
MaxSuggests == 2
MaxTicks == 1

VARIABLES
    settings,        \* the engine's AppSettings
    seed_stream,     \* what Random(42) yields: the draws of its k-th simulate_step
    rng_pos,         \* draws made so far on the engine's generator (self._rng)
    engine_runs,     \* run_simulation calls made on the engine since it was built
    engines,         \* engines built so far
    sim_pc,          \* "idle", "loop" (inside the for loop) or "done"
    sim_product,     \* the product argument
    sim_arg,         \* the steps argument: NoSteps or StepsArg(n)
    sim_market,      \* the market argument
    steps,           \* the local `steps` after "steps or default_steps"
    actions,         \* the local `actions`
    current_price,   \* the local `current_price`
    current_market,  \* the local `current_market`
    prices,          \* the local `prices`
    result,          \* the SimulationResult returned by the last run
    suggested,       \* the suggest_price calls made from outside during the run
    now,             \* what datetime.now() reads, in ticks of the clock
    first_run        \* a first run of an engine kept for comparison: arguments and result

simVars == << settings, seed_stream, rng_pos, engine_runs, engines, sim_pc, sim_product, sim_arg, sim_market, steps,
              actions, current_price, current_market, prices, result, suggested,
              now, first_run >>

SimProducts == { [sample_id |-> 1, price |-> 80], [sample_id |-> 2, price |-> 240] }

\* Market states as generate_market_state builds them (data_loader.py:208-220):
\* current_price is the product's price, the competitor within 20% of it
Markets(p) ==
    { [product_id |-> p.sample_id, current_price |-> p.price,
       competitor_price |-> c, inventory_level |-> inv, user_engagement |-> 50,
       seasonal_factor |-> 100, demand_elasticity |-> k, timestamp |-> 0] :
      c \in { RoundDiv(p.price * 90, 100), RoundDiv(p.price * 120, 100) },
      inv \in {10, 200}, k \in {1, 2} }

\* Market states a caller of run_simulation may build by hand: at the edge of
\* the ranges simulate_step keeps, and outside them
OtherMarkets(p) ==
    { [product_id |-> p.sample_id, current_price |-> p.price,
       competitor_price |-> p.price, inventory_level |-> 490,
       user_engagement |-> 98, seasonal_factor |-> 248, demand_elasticity |-> 1,
       timestamp |-> 0],
      [product_id |-> p.sample_id, current_price |-> p.price,
       competitor_price |-> p.price, inventory_level |-> -5,
       user_engagement |-> 150, seasonal_factor |-> 300, demand_elasticity |-> 2,
       timestamp |-> 0],
      [product_id |-> p.sample_id, current_price |-> 80,
       competitor_price |-> 1, inventory_level |-> 0,
       user_engagement |-> 2, seasonal_factor |-> 10, demand_elasticity |-> 1,
       timestamp |-> 0] }

\* The streams the generator seeded with 42 may yield: one vector of draws
\* for each simulate_step (here two vectors in turn), read round again past
\* the end
Streams == { [k \in 1..MaxSteps |-> IF k % 2 = 1 THEN a ELSE b] : a, b \in DrawVecs }
StreamDraw(stream, k) == stream[((k - 1) % Len(stream)) + 1]

\* random.Random(42): the generator of a new engine has made no draw,
\* whatever the generator of the engine before it has done
FreshGenerator(pos) == 0

SettingsChoices ==
    { [DefaultSettings EXCEPT !.default_steps = d] : d \in {0, 2, MaxSteps} }

\* Weights the settings screen accepts (any number): the profit and the
\* stability terms switched off, so that candidates at or below the
\* competitor's price have one and the same reward
CompetitionOnlySettings == [DefaultSettings EXCEPT !.alpha = 0, !.gamma = 0]

StepsChoices == { NoSteps } \cup { StepsArg(n) : n \in 0..MaxSteps }

NoResult ==
    [product_id |-> 0, actions |-> << >>, total_reward |-> 0, avg_reward |-> 0,
     final_price |-> 0, initial_price |-> 0, max_price |-> 0, min_price |-> 0,
     steps |-> 0]

NoMarket ==
    [product_id |-> 0, current_price |-> 0, competitor_price |-> 0,
     inventory_level |-> 0, user_engagement |-> 0, seasonal_factor |-> 0,
     demand_elasticity |-> 0, timestamp |-> 0]

\* No call of suggest_price yet in this run: calls made, the market and the price of the
\* last one, how often a call had the market of the call before it, and the
\* steps of the run in progress done at the last call and at the first call
\* on that market
NoSuggestion ==
    [calls |-> 0, market |-> NoMarket, price |-> 0, repeats |-> 0, at |-> 0, first_at |-> 0]

NoFirstRun ==
    [valid |-> FALSE, settings |-> DefaultSettings,
     product |-> [sample_id |-> 0, price |-> 0], market |-> NoMarket, steps |-> 0,
     result |-> NoResult]

InitSim(S, T) ==
    /\ settings \in S
    /\ seed_stream \in T
    /\ rng_pos = 0
    /\ engine_runs = 0
    /\ engines = 1
    /\ sim_pc = "idle"
    /\ sim_product = [sample_id |-> 0, price |-> 0]
    /\ sim_arg = NoSteps
    /\ sim_market = NoMarket
    /\ steps = 0
    /\ actions = << >>
    /\ current_price = 0
    /\ current_market = NoMarket
    /\ prices = << >>
    /\ result = NoResult
    /\ suggested = NoSuggestion
    /\ now = 0
    /\ first_run = NoFirstRun

\* DynamicPricingEngine(settings): a fresh generator, Random(42)
NewEngine ==
    /\ sim_pc = "idle"
    /\ engine_runs # 0
    /\ engines < MaxEngines
    /\ \E s \in SettingsChoices : settings' = s
    /\ rng_pos' = FreshGenerator(rng_pos)
    /\ engine_runs' = 0
    /\ engines' = engines + 1
    /\ suggested' = NoSuggestion
    /\ UNCHANGED << seed_stream, sim_pc, sim_product, sim_arg, sim_market, steps, actions,
                    current_price, current_market, prices, result, now, first_run >>

\* run_simulation, lines 180-185
RunSimulation ==
    /\ sim_pc = "idle"
    /\ \E p \in SimProducts, arg \in StepsChoices :
         \E m \in Markets(p) \cup OtherMarkets(p) :
            /\ engine_runs < MaxRuns
            /\ rng_pos + 4 * EffectiveSteps(arg, settings) <= 4 * MaxSteps
            /\ sim_product' = p
            /\ sim_arg' = arg
            /\ sim_market' = m
            /\ steps' = EffectiveSteps(arg, settings)
            /\ actions' = << >>
            /\ current_price' = m.current_price
            /\ current_market' = m
            /\ prices' = << m.current_price >>
    /\ sim_pc' = "loop"
    /\ engine_runs' = engine_runs + 1
    /\ UNCHANGED << settings, seed_stream, rng_pos, engines, result, suggested, now, first_run >>

\* One iteration of "for step in range(steps)"
SimStep ==
    /\ sim_pc = "loop"
    /\ Len(actions) < steps
    /\ LET d == StreamDraw(seed_stream, (rng_pos \div 4) + 1)
           r == SimulateStep(settings, sim_product, current_market, current_price, d, now)
           action == [r.action EXCEPT !.step = Len(actions) + 1]
       IN  /\ actions' = Append(actions, action)
           /\ current_market' = r.market
           /\ current_price' = action.new_price
           /\ prices' = Append(prices, action.new_price)
    /\ rng_pos' = rng_pos + 4
    /\ UNCHANGED << settings, seed_stream, engine_runs, engines, sim_pc, sim_product, sim_arg, sim_market, steps, result, suggested, now, first_run >>

\* Lines 196-210: the SimulationResult
BuildResultStale(product, acts, price_list, price, nsteps) ==
    LET total_reward == SumSeq([k \in DOMAIN acts |-> acts[k].reward])
        avg_reward == IF acts # << >> THEN RoundDiv(total_reward, Len(acts)) ELSE 0
    IN  [product_id |-> product.sample_id,
         actions |-> acts,
         total_reward |-> total_reward,
         avg_reward |-> avg_reward,
         final_price |-> price_list[1],
         initial_price |-> price_list[1],
         max_price |-> MaxOf(Range(price_list)),
         min_price |-> MinOf(Range(price_list)),
         steps |-> nsteps]

BuildResultNewPrices(product, acts, price_list, price, nsteps) ==
    LET total_reward == SumSeq([k \in DOMAIN acts |-> acts[k].reward])
        avg_reward == IF acts # << >> THEN RoundDiv(total_reward, Len(acts)) ELSE 0
    IN  [product_id |-> product.sample_id,
         actions |-> acts,
         total_reward |-> total_reward,
         avg_reward |-> avg_reward,
         final_price |-> price,
         initial_price |-> price_list[1],
         max_price |-> MaxOf(Range(Tail(price_list)) \cup {0}),
         min_price |-> MinOf(Range(Tail(price_list)) \cup {0}),
         steps |-> nsteps]

BuildResult(product, acts, price_list, price, nsteps) ==
    LET total_reward == SumSeq([k \in DOMAIN acts |-> acts[k].reward])
        avg_reward == IF acts # << >> THEN RoundDiv(total_reward, Len(acts)) ELSE 0
    IN  [product_id |-> product.sample_id,
         actions |-> acts,
         total_reward |-> total_reward,
         avg_reward |-> avg_reward,
         final_price |-> price,
         initial_price |-> price_list[1],
         max_price |-> MaxOf(Range(price_list)),
         min_price |-> MinOf(Range(price_list)),
         steps |-> nsteps]

\* run_simulation as one call on an engine whose generator has made pos
\* draws (lines 180-210), the clock reading t throughout
RECURSIVE SimLoop(_, _, _, _, _, _, _, _, _, _)
SimLoop(s, stream, pos, product, market, price, acts, price_list, n, t) ==
    IF Len(acts) >= n
    THEN BuildResult(product, acts, price_list, price, n)
    ELSE LET d == StreamDraw(stream, (pos \div 4) + 1)
             r == SimulateStep(s, product, market, price, d, t)
             action == [r.action EXCEPT !.step = Len(acts) + 1]
         IN  SimLoop(s, stream, pos + 4, product, r.market, action.new_price,
                     Append(acts, action), Append(price_list, action.new_price), n, t)

RunSimulationResult(s, stream, pos, product, market, arg, t) ==
    SimLoop(s, stream, pos, product, market, market.current_price, << >>,
            << market.current_price >>, EffectiveSteps(arg, s), t)

SimReturn ==
    /\ sim_pc = "loop"
    /\ Len(actions) >= steps
    /\ result' = BuildResult(sim_product, actions, prices, current_price, steps)
    /\ sim_pc' = "done"
    /\ UNCHANGED << settings, seed_stream, rng_pos, engine_runs, engines, sim_product, sim_arg,
                    sim_market, steps, actions, current_price, current_market, prices,
                    suggested, now, first_run >>

\* The control of the loop alone (lines 187 and 199): an iteration draws its
\* four numbers, the end of the range leaves the loop
LoopAdvance ==
    /\ sim_pc = "loop"
    /\ Len(actions) < steps
    /\ rng_pos' = rng_pos + 4
LoopExit ==
    /\ sim_pc = "loop"
    /\ Len(actions) >= steps
    /\ sim_pc' = "done"

\* suggest_price (lines 92-121) called on the engine from outside: the price
\* it returns and the generator it leaves behind
SuggestPriceDrawing(s, market, pos) ==
    [price |-> SuggestPrice(s, market), rng_pos |-> pos + 4]
SuggestPriceCall(s, market, pos) ==
    [price |-> SuggestPrice(s, market), rng_pos |-> pos]

\* A call of suggest_price between two steps of a run, on the market the run
\* started from or the one it has reached
Suggest ==
    /\ sim_pc = "loop"
    /\ suggested.calls < MaxSuggests
    /\ \E m \in { sim_market, current_market } :
         LET r == SuggestPriceCall(settings, m, rng_pos)
             again == suggested.calls > 0 /\ suggested.market = m
         IN  /\ rng_pos' = r.rng_pos
             /\ suggested' = [calls |-> suggested.calls + 1,
                              market |-> m,
                              price |-> r.price,
                              repeats |-> suggested.repeats + (IF again THEN 1 ELSE 0),
                              at |-> Len(actions),
                              first_at |-> IF again THEN suggested.first_at ELSE Len(actions)]
    /\ UNCHANGED << settings, seed_stream, engine_runs, engines, sim_pc, sim_product, sim_arg,
                    sim_market, steps, actions, current_price, current_market, prices, result, now, first_run >>

\* The clock moves on between two calls (within a call it is read as if it
\* stood still)
Tick ==
    /\ sim_pc = "idle"
    /\ now < MaxTicks
    /\ now' = now + 1
    /\ UNCHANGED << settings, seed_stream, rng_pos, engine_runs, engines, sim_pc, sim_product,
                    sim_arg, sim_market, steps, actions, current_price, current_market,
                    prices, result, suggested, first_run >>

\* The caller keeps the result of an engine's first run, with the arguments
\* of the call, to compare it with that of another engine
KeepFirstRun ==
    /\ sim_pc = "done"
    /\ engine_runs = 1
    /\ ~first_run.valid
    /\ first_run' = [valid |-> TRUE, settings |-> settings, product |-> sim_product,
                     market |-> sim_market, steps |-> steps, result |-> result]
    /\ UNCHANGED << settings, seed_stream, rng_pos, engine_runs, engines, sim_pc, sim_product,
                    sim_arg, sim_market, steps, actions, current_price, current_market,
                    prices, result, suggested, now >>

\* The caller takes the result; the locals of the call are gone
SimIdle ==
    /\ sim_pc = "done"
    /\ sim_pc' = "idle"
    /\ sim_product' = [sample_id |-> 0, price |-> 0]
    /\ sim_arg' = NoSteps
    /\ sim_market' = NoMarket
    /\ steps' = 0
    /\ actions' = << >>
    /\ current_price' = 0
    /\ current_market' = NoMarket
    /\ prices' = << >>
    /\ result' = NoResult
    /\ suggested' = NoSuggestion
    /\ UNCHANGED << settings, seed_stream, rng_pos, engine_runs, engines, now, first_run >>


\* ------------------------------------------------------------------------
\* The settings store (storage.py:19-35, models.py:131-145)
\*
\* settings.json is held as what json.loads makes of it: an object (its
\* items in order), a list, a number, a string, null; or text that is no
\* JSON; or bytes that are no UTF-8.
\* ------------------------------------------------------------------------
JsonObject(items) == [kind |-> "object", items |-> items]
JsonList == [kind |-> "list", items |-> << >>]
JsonNumber == [kind |-> "number", items |-> << >>]
JsonString == [kind |-> "string", items |-> << >>]
JsonNull == [kind |-> "null", items |-> << >>]
NotJson == [kind |-> "garbage", items |-> << >>]
NotUtf8 == [kind |-> "bytes", items |-> << >>]

VARIABLES
    settings_file,   \* settings.json: [exists, doc]
    app_settings,    \* WarehouseApp.settings
    loaded           \* how the last load_settings() ended: [kind, settings, exc]

setVars == << settings_file, app_settings, loaded >>

\* AppSettings.to_dict
ToDict(s) ==
    << <<"alpha", s.alpha>>, <<"beta", s.beta>>, <<"gamma", s.gamma>>,
       <<"delta", s.delta>>, <<"default_steps", s.default_steps>>,
       <<"price_adjustment_range", s.price_adjustment_range>>,
       <<"max_catalog_rows", s.max_catalog_rows>>, <<"theme", s.theme>> >>

\* path.read_text(encoding="utf-8")
ReadText(doc) ==
    IF doc.kind = "bytes" THEN [ok |-> FALSE, exc |-> "UnicodeDecodeError"]
    ELSE [ok |-> TRUE, exc |-> ""]

\* json.loads
JsonLoads(doc) ==
    IF doc.kind = "garbage" THEN [ok |-> FALSE, exc |-> "JSONDecodeError"]
    ELSE [ok |-> TRUE, exc |-> ""]

\* AppSettings.from_dict: data.items() exists on a dict only; the fields of
\* the dataclass are taken from data, the others keep their defaults
FromDict(data) ==
    IF data.kind # "object"
    THEN [ok |-> FALSE, exc |-> "AttributeError", settings |-> DefaultSettings]
    ELSE [ok |-> TRUE, exc |-> "",
          settings |-> [f \in DOMAIN DefaultSettings |->
                          IF DictHas(data.items, f) THEN DictGet(data.items, f, 0)
                          ELSE DefaultSettings[f]]]

\* The exceptions load_settings catches (storage.py:33)
LOAD_SETTINGS_CAUGHT == {"JSONDecodeError", "TypeError", "KeyError"}

\* What the try block of load_settings does: the settings, or an exception
LoadSettingsTry(doc) ==
    IF ~ReadText(doc).ok
    THEN [ok |-> FALSE, exc |-> ReadText(doc).exc, settings |-> DefaultSettings]
    ELSE IF ~JsonLoads(doc).ok
    THEN [ok |-> FALSE, exc |-> JsonLoads(doc).exc, settings |-> DefaultSettings]
    ELSE FromDict(doc)

\* load_settings()
LoadSettingsResult(file) ==
    IF ~file.exists
    THEN [kind |-> "settings", settings |-> DefaultSettings, exc |-> ""]
    ELSE LET t == LoadSettingsTry(file.doc)
         IN  IF t.ok THEN [kind |-> "settings", settings |-> t.settings, exc |-> ""]
             ELSE IF t.exc \in LOAD_SETTINGS_CAUGHT
             THEN [kind |-> "settings", settings |-> DefaultSettings, exc |-> ""]
             ELSE [kind |-> "exception", settings |-> DefaultSettings, exc |-> t.exc]

NotLoaded == [kind |-> "none", settings |-> DefaultSettings, exc |-> ""]

\* The items a settings.json written by hand may hold
DocItems ==
    { <<"alpha", 50>>, <<"default_steps", 5>>, <<"theme", "light">>, <<"bogus", 1>> }

\* The documents: every object of at most MaxItems of these items, and one
\* document of every other kind
MaxItems == 2
Docs ==
    { JsonObject(items) :
        items \in { q \in SeqsUpTo(DocItems, MaxItems) :
                      \A m, n \in DOMAIN q : m # n => q[m][1] # q[n][1] } }
    \cup { JsonList, JsonNumber, JsonString, JsonNull, NotJson, NotUtf8 }

\* What the settings screen reads from its inputs (settings.py:69-83)
ScreenSettings ==
    { [DefaultSettings EXCEPT !.alpha = a, !.default_steps = d] :
        a \in {40, 60}, d \in {30, 10} }

InitSettings ==
    /\ settings_file = [exists |-> FALSE, doc |-> JsonNull]
    /\ app_settings = DefaultSettings
    /\ loaded = NotLoaded

\* WarehouseApp.__init__, line 42: self.settings = load_settings()
LoadSettings ==
    /\ loaded' = LoadSettingsResult(settings_file)
    /\ app_settings' = IF loaded'.kind = "settings" THEN loaded'.settings
                       ELSE app_settings
    /\ UNCHANGED settings_file

\* The Save button of the settings screen: self.app.settings = self._read();
\* save_settings(self.app.settings)
SaveSettings ==
    /\ \E s \in ScreenSettings :
         /\ app_settings' = s
         /\ settings_file' = [exists |-> TRUE, doc |-> JsonObject(ToDict(s))]
    /\ UNCHANGED loaded

\* settings.json is edited or replaced outside the application
EnvEditSettings ==
    /\ \E doc \in Docs : settings_file' = [exists |-> TRUE, doc |-> doc]
    /\ settings_file' # settings_file
    /\ UNCHANGED << app_settings, loaded >>

\* settings.json is deleted
EnvRemoveSettings ==
    /\ settings_file.exists
    /\ settings_file' = [exists |-> FALSE, doc |-> JsonNull]
    /\ UNCHANGED << app_settings, loaded >>

\* ------------------------------------------------------------------------
\* Simulation history store (storage.py:38-92)
\* ------------------------------------------------------------------------
HISTORY_CAP == 200
MaxSaves == 202

VARIABLES
    history_file,   \* simulations.json: [exists, entries], entries the JSON list
    saved,          \* every summary handed to save_simulation since the store was last empty
    nsaves,         \* save_simulation calls so far
    run_pattern     \* which product the k-th simulation of the session is run on

histVars == << history_file, saved, nsaves, run_pattern >>

\* The SimulationResult of the session's k-th simulation: the store copies
\* its fields and does not look into them
ResultOfRun(k, pattern) ==
    LET pid == pattern[(k % Len(pattern)) + 1]
    IN  [product_id |-> pid,
         actions |-> << [product_id |-> pid, old_price |-> 100 * pid,
                         new_price |-> 100 * pid + k, reward |-> 10 * k,
                         profit_component |-> 0, competitive_component |-> 0,
                         stability_component |-> 0, inventory_component |-> 0,
                         step |-> 1] >>,
         total_reward |-> 10 * k,
         avg_reward |-> 10 * k,
         final_price |-> 100 * pid + k,
         initial_price |-> 100 * pid,
         max_price |-> 100 * pid + k,
         min_price |-> 100 * pid,
         steps |-> 1]

\* SimulationResult.price_change_pct rounded to 2 decimals, in 1/100 percent
PriceChangePct(r) ==
    IF r.initial_price = 0 THEN 0
    ELSE LET diff == (r.final_price - r.initial_price) * 10000
         IN  IF diff >= 0 THEN RoundDiv(diff, r.initial_price)
             ELSE 0 - RoundDiv(0 - diff, r.initial_price)

\* The record save_simulation builds (lines 49-67)
SummaryOf(r) ==
    [product_id |-> r.product_id,
     total_reward |-> r.total_reward,
     avg_reward |-> r.avg_reward,
     initial_price |-> r.initial_price,
     final_price |-> r.final_price,
     steps |-> r.steps,
     price_change_pct |-> PriceChangePct(r),
     actions |-> [k \in DOMAIN r.actions |->
                    [step |-> r.actions[k].step,
                     old_price |-> r.actions[k].old_price,
                     new_price |-> r.actions[k].new_price,
                     reward |-> r.actions[k].reward]]]

\* A faulty variant: history[:200], the oldest entries kept
KeepFirst(history) ==
    IF Len(history) > HISTORY_CAP THEN SubSeq(history, 1, HISTORY_CAP) ELSE history

\* Lines 70-72: history[-200:] when the list is longer than 200
KeepLast(history) ==
    IF Len(history) > HISTORY_CAP
    THEN SubSeq(history, Len(history) - HISTORY_CAP + 1, Len(history))
    ELSE history

\* The list save_simulation writes, given the file it finds
HistoryAfterSave(file, r) ==
    KeepLast(Append(IF file.exists THEN file.entries ELSE << >>, SummaryOf(r)))

InitHist(P) ==
    /\ history_file = [exists |-> FALSE, entries |-> << >>]
    /\ saved = << >>
    /\ nsaves = 0
    /\ run_pattern \in P

\* save_simulation(result)
SaveSimulation ==
    /\ nsaves < MaxSaves
    /\ LET r == ResultOfRun(nsaves, run_pattern)
       IN  /\ history_file' = [exists |-> TRUE, entries |-> HistoryAfterSave(history_file, r)]
           /\ saved' = Append(saved, SummaryOf(r))
    /\ nsaves' = nsaves + 1
    /\ UNCHANGED run_pattern

\* clear_simulation_history()
ClearSimulationHistory ==
    /\ history_file.exists
    /\ history_file' = [exists |-> FALSE, entries |-> << >>]
    /\ saved' = << >>
    /\ UNCHANGED << nsaves, run_pattern >>

\* ------------------------------------------------------------------------
\* Pricing screen (screens/pricing.py:64-103)
\* ------------------------------------------------------------------------
\* The limits of the steps input and the value taken when it is empty: 5,
\* 200 and 30 in the code (lines 91-94), scaled down here
ScreenMinSteps == 2
ScreenMaxSteps == 4
ScreenDefaultSteps == 3
\* base = ... else 10.0 in generate_market_state, in cents
MARKET_FALLBACK_BASE == 1000
MaxClicks == 2

VARIABLES
    products,            \* self.app.products, the products of the snapshot
    simulation_history,  \* self.app.simulation_history
    sim_status,          \* what the status line of the screen shows
    engine_calls,        \* the run_simulation calls the screen has made: product and steps
    nclicks              \* presses of "Run Simulation" so far

screenVars == << products, simulation_history, sim_status, engine_calls, nclicks >>

\* A product of the snapshot: its price is what float(row["price"]) gave, a
\* number (here cents) or, for the cell "nan", the float NaN (nan = TRUE)
SnapshotProduct(id, cents) == [sample_id |-> id, price |-> cents, nan |-> FALSE]
NanProduct(id) == [sample_id |-> id, price |-> 0, nan |-> TRUE]

\* product.price <= 0 and product.price > 0: both are false of NaN
PriceLeqZero(p) == ~p.nan /\ p.price <= 0
PricePositive(p) == ~p.nan /\ p.price > 0

\* for p in self.app.products: if p.sample_id == pid: product = p; break
\* (0 when there is none)
RECURSIVE FindProduct(_, _, _)
FindProduct(prods, pid, i) ==
    IF i > Len(prods) THEN 0
    ELSE IF prods[i].sample_id = pid THEN i
    ELSE FindProduct(prods, pid, i + 1)

\* Lines 89-94: the steps input, the default when empty or no integer, then
\* max(min_steps, min(max_steps, steps))
ScreenSteps(steps_text) ==
    LET steps_val == Strip(steps_text)
        parsed == IntParse(Text(steps_val))
        typed == IF steps_val = << >> THEN ScreenDefaultSteps
                 ELSE IF parsed.ok THEN parsed.val
                 ELSE ScreenDefaultSteps
    IN  Max2(ScreenMinSteps, Min2(ScreenMaxSteps, typed))

\* Lines 65-94: what _run makes of its two inputs: a rejection, or the
\* product and the steps it runs the engine with
RunRequest(id_text, steps_text, prods) ==
    LET id_val == Strip(id_text)
        pid == IntParse(Text(id_val))
        i == FindProduct(prods, pid.val, 1)
        none == [sample_id |-> 0, price |-> 0, nan |-> FALSE]
    IN  IF id_val = << >> THEN [status |-> "Enter a Product ID first.", product |-> none, steps |-> 0]
        ELSE IF ~pid.ok THEN [status |-> "Invalid Product ID.", product |-> none, steps |-> 0]
        ELSE IF i = 0 THEN [status |-> "not found", product |-> none, steps |-> 0]
        ELSE IF PriceLeqZero(prods[i])
             THEN [status |-> "has no price data", product |-> none, steps |-> 0]
        ELSE [status |-> "run", product |-> prods[i], steps |-> ScreenSteps(steps_text)]

\* generate_market_state(product) (data_loader.py:208-220): the generator is
\* seeded with the sample_id, so the market is a function of the product;
\* base = product.price if product.price > 0 else 10.0.  Which point of the
\* ranges a seed gives is not modelled: one market of the ranges per product
GenerateMarketState(p) ==
    LET base == IF PricePositive(p) THEN p.price ELSE MARKET_FALLBACK_BASE
    IN  [product_id |-> p.sample_id, current_price |-> base,
         competitor_price |-> RoundDiv(base * (IF p.sample_id % 2 = 1 THEN 90 ELSE 120), 100),
         inventory_level |-> IF p.sample_id % 2 = 1 THEN 200 ELSE 10,
         user_engagement |-> 50, seasonal_factor |-> 100,
         demand_elasticity |-> 1 + (p.sample_id % 2), timestamp |-> 0]

\* What the user may have typed into the two inputs
IdTexts == { << >>, <<"1">>, <<" ", "2">>, <<"3">>, <<"9">>, <<"x">> }
StepsTexts == { << >>, <<"1">>, <<"4">>, <<"5", "0", "0">>, <<"-", "3">>, <<"a">> }

\* Snapshots: a priced product, one of price 0 and one whose price cell was
\* "nan"; two products of one id, the first without a price; no product
Snapshots ==
    { << SnapshotProduct(1, 80), SnapshotProduct(2, 0), NanProduct(3) >>,
      << SnapshotProduct(1, 0), SnapshotProduct(1, 240), SnapshotProduct(2, 240) >>,
      << >> }

InitScreen ==
    /\ products \in Snapshots
    /\ simulation_history = << >>
    /\ sim_status = "Enter a Product ID and click Run."
    /\ engine_calls = << >>
    /\ nclicks = 0

QuietScreen ==
    /\ products = << >>
    /\ simulation_history = << >>
    /\ sim_status = "Enter a Product ID and click Run."
    /\ engine_calls = << >>
    /\ nclicks = 0

\* The "Run Simulation" button: _run, with the engine it builds and runs,
\* save_simulation and the append to the application's history
PressRun ==
    /\ nclicks < MaxClicks
    /\ nclicks' = nclicks + 1
    /\ \E id_text \in IdTexts, steps_text \in StepsTexts :
         LET req == RunRequest(id_text, steps_text, products)
         IN  IF req.status # "run"
             THEN /\ sim_status' = req.status
                  /\ UNCHANGED << simulation_history, engine_calls, histVars >>
             ELSE LET market == GenerateMarketState(req.product)
                      r == RunSimulationResult(app_settings, seed_stream, FreshGenerator(rng_pos),
                                               req.product, market, StepsArg(req.steps), now)
                  IN  /\ engine_calls' = Append(engine_calls,
                                                [product |-> req.product, steps |-> req.steps])
                      /\ history_file' = [exists |-> TRUE,
                                          entries |-> HistoryAfterSave(history_file, r)]
                      /\ saved' = Append(saved, SummaryOf(r))
                      /\ nsaves' = nsaves + 1
                      /\ UNCHANGED run_pattern
                      /\ simulation_history' = Append(simulation_history, r)
                      /\ sim_status' = "Done"
    /\ UNCHANGED products

\* The "Clear History" button of the settings screen (settings.py:91-94):
\* clear_simulation_history() and self.app.simulation_history.clear()
PressClear ==
    /\ IF history_file.exists THEN ClearSimulationHistory ELSE UNCHANGED histVars
    /\ simulation_history' = << >>
    /\ UNCHANGED << products, sim_status, engine_calls, nclicks >>

\* load_simulation_history() (storage.py:77-85): the list of the file, or
\* the empty list when there is no file
LoadSimulationHistory(file) == IF file.exists THEN file.entries ELSE << >>

\* The store a session finds when it starts: no file, or the summaries that
\* n runs of earlier sessions left in it
PriorStore(n) ==
    IF n = 0 THEN [exists |-> FALSE, entries |-> << >>]
    ELSE [exists |-> TRUE,
          entries |-> [k \in 1..n |-> SummaryOf(ResultOfRun(k - 1, <<1, 2, 3>>))]]
PriorSizes == {0, 1, HISTORY_CAP - 1, HISTORY_CAP}

\* WarehouseApp.__init__ (app.py:42-43) on a store earlier sessions left:
\* self.simulation_history = load_simulation_history()
InitSession ==
    /\ history_file \in {PriorStore(n) : n \in PriorSizes}
    /\ saved = history_file.entries
    /\ nsaves = Len(history_file.entries)
    /\ run_pattern = <<1, 2, 3>>
    /\ products \in Snapshots
    /\ simulation_history = LoadSimulationHistory(history_file)
    /\ sim_status = "Enter a Product ID and click Run."
    /\ engine_calls = << >>
    /\ nclicks = 0


\* ------------------------------------------------------------------------
\* The statistics pass on its own (data_loader.py:160-197): a pure function
\* of the finished reservoir, applied to samples longer than the scaled
\* capacity lets the row loop build
\* ------------------------------------------------------------------------
MaxSample == 4

VARIABLES
    sampled,      \* the finished reservoir handed to the pass
    stats,        \* the PrecomputedData the pass has filled in
    stats_done    \* whether the pass has run

statVars == << sampled, stats, stats_done >>

\* a row with a negative price
RowRefund == Row(Text(<<"1","5">>), Text(<<"-","5">>), Text(<<"i","t","e","m","_","n","a","m","e",":"," ","T","e","a"," ","R","e","f","u","n","d">>), Text(<<"o","z">>))

\* The products the row loop builds from rows, row k of the sample as row k
\* of its source
StatRows == {RowTea, RowMilk, RowBox, RowChai, RowChips, RowRefund}
ProductsOf(rows) == [k \in DOMAIN rows |-> ParseRow(k - 1, rows[k]).product]
Samples == { ProductsOf(rows) : rows \in SeqsUpTo(StatRows, MaxSample) }

InitStats ==
    /\ sampled \in Samples
    /\ stats = EmptyData
    /\ stats_done = FALSE

QuietStats ==
    /\ sampled = << >>
    /\ stats = EmptyData
    /\ stats_done = FALSE

\* Lines 160-197
StatisticsPass ==
    /\ ~stats_done
    /\ stats' = ComputeStats(sampled, Len(sampled))
    /\ stats_done' = TRUE
    /\ UNCHANGED sampled

\* ------------------------------------------------------------------------
\* Two processes in load_and_cache on the same source (data_loader.py:115-122
\* and 199-203).  The cache file is written in place: open(cache, "wb")
\* empties it, pickle.dump writes the blob piece by piece, the end of the
\* with block closes it.  A blob is modelled as two pieces, each tagged with
\* the snapshot it belongs to; every process writes at its own offsets.
\* ------------------------------------------------------------------------
Procs == {1, 2}

VARIABLES
    cache_file,   \* the cache file of the source: [exists, head, tail]
    proc,         \* per process: [pc, data, observed]
    close_order   \* the processes that have closed the file, in that order

raceVars == << cache_file, proc, close_order >>

\* A piece of the file that holds nothing
NoPiece == [written |-> FALSE, of |-> EmptyData]
Piece(data) == [written |-> TRUE, of |-> data]

NoFile == [exists |-> FALSE, head |-> NoPiece, tail |-> NoPiece]

\* The snapshots the ingestion of the source <<RowTea, RowMilk, RowChai>> can
\* return with room for two products: the third row replaces the first, the
\* second or none
RaceSnapshots ==
    { ComputeStats(ProductsOf(rows), 3) :
        rows \in { << RowTea, RowMilk >>, << RowChai, RowMilk >>, << RowTea, RowChai >> } }

\* What the file is to pickle.load: the blob of one snapshot, or something
\* that is no complete pickle
BlobOf(file) ==
    IF file.head.written /\ file.tail.written /\ file.head.of = file.tail.of
    THEN Pickled(file.head.of)
    ELSE Garbage

\* What a process finds at lines 115-122
Observation(file) ==
    IF ~file.exists THEN "no entry"
    ELSE IF BlobOf(file).kind = "pickle" THEN "complete"
    ELSE "partial"

NotStarted == [pc |-> "start", data |-> EmptyData, observed |-> ""]

InitRace ==
    /\ cache_file = NoFile
    /\ proc = [p \in Procs |-> NotStarted]
    /\ close_order = << >>

QuietRace == InitRace

\* Lines 115-122: cache.exists(), open, pickle.load; a hit returns, every
\* failure is swallowed and the process goes on to read the source
RaceLookup(p) ==
    /\ proc[p].pc = "start"
    /\ LET seen == Observation(cache_file)
           found == CacheLookup(IF cache_file.exists
                                THEN (cache_path :> BlobOf(cache_file))
                                ELSE EmptyFiles, cache_path)
       IN  proc' = [proc EXCEPT ![p] =
                      IF found.hit
                      THEN [pc |-> "returned", data |-> found.data, observed |-> seen]
                      ELSE [pc |-> "ingest", data |-> EmptyData, observed |-> seen]]
    /\ UNCHANGED << cache_file, close_order >>

\* Lines 124-197: the row loop and the statistics
RaceIngest(p) ==
    /\ proc[p].pc = "ingest"
    /\ \E data \in RaceSnapshots :
          proc' = [proc EXCEPT ![p].pc = "computed", ![p].data = data]
    /\ UNCHANGED << cache_file, close_order >>

\* Line 200: open(cache, "wb") creates the file or empties it
RaceOpen(p) ==
    /\ proc[p].pc = "computed"
    /\ cache_file' = [exists |-> TRUE, head |-> NoPiece, tail |-> NoPiece]
    /\ proc' = [proc EXCEPT ![p].pc = "opened"]
    /\ UNCHANGED close_order

\* Line 201: the first piece of pickle.dump reaches the file
RaceWriteHead(p) ==
    /\ proc[p].pc = "opened"
    /\ cache_file' = [cache_file EXCEPT !.exists = TRUE, !.head = Piece(proc[p].data)]
    /\ proc' = [proc EXCEPT ![p].pc = "half"]
    /\ UNCHANGED close_order

\* Lines 201-205: the rest of the blob, the close, the return
RaceWriteTail(p) ==
    /\ proc[p].pc = "half"
    /\ cache_file' = [cache_file EXCEPT !.exists = TRUE, !.tail = Piece(proc[p].data)]
    /\ proc' = [proc EXCEPT ![p].pc = "returned"]
    /\ close_order' = Append(close_order, p)
\* ------------------------------------------------------------------------
\* Specifications
\* ------------------------------------------------------------------------
vars == << loaderVars, simVars, histVars, setVars, screenVars, statVars, raceVars >>

RunPatterns == { <<1, 2, 3>>, <<1, 1, 2>> }

\* The subsystems at rest
QuietLoader == InitLoader({ << >> })
QuietStream == [k \in 1..MaxSteps |-> [inv |-> 7, eng |-> 4, seas |-> -6, comp |-> 5]]
QuietSim == InitSim({ DefaultSettings }, { QuietStream })
QuietHist == InitHist({ <<1, 2, 3>> })

\* The ingestion pipeline on every source, the file system left alone
InitIngest == InitLoader(Sources) /\ QuietSim /\ QuietHist /\ InitSettings /\ QuietScreen /\ QuietStats /\ QuietRace
NextIngest ==
    \/ (LoadData /\ UNCHANGED << simVars, histVars, setVars, screenVars, statVars, raceVars >>)
    \/ (LoadDirect /\ UNCHANGED << simVars, histVars, setVars, screenVars, statVars, raceVars >>)
    \/ (ReloadData /\ UNCHANGED << simVars, histVars, setVars, screenVars, statVars, raceVars >>)
    \/ (ReadRow /\ UNCHANGED << simVars, histVars, setVars, screenVars, statVars, raceVars >>)
    \/ (Finish /\ UNCHANGED << simVars, histVars, setVars, screenVars, statVars, raceVars >>)
    \/ (Idle /\ UNCHANGED << simVars, histVars, setVars, screenVars, statVars, raceVars >>)
SpecIngest == InitIngest /\ [][NextIngest]_vars

\* The snapshot cache under a changing file system, on the sources built
\* from a good row and a row that aborts the ingestion
CacheSources == SeqsUpTo({RowTea, RowBadId}, MaxRows)
InitCache == InitLoader(CacheSources) /\ QuietSim /\ QuietHist /\ InitSettings /\ QuietScreen /\ QuietStats /\ QuietRace
NextCache ==
    \/ NextIngest
    \/ (EnvChmod /\ UNCHANGED << simVars, histVars, setVars, screenVars, statVars, raceVars >>)
    \/ (EnvRemove /\ UNCHANGED << simVars, histVars, setVars, screenVars, statVars, raceVars >>)
    \/ (EnvTouch /\ UNCHANGED << simVars, histVars, setVars, screenVars, statVars, raceVars >>)
    \/ (EnvDamageCache /\ UNCHANGED << simVars, histVars, setVars, screenVars, statVars, raceVars >>)
    \/ (EnvCacheDir /\ UNCHANGED << simVars, histVars, setVars, screenVars, statVars, raceVars >>)
SpecCache == InitCache /\ [][NextCache]_vars

\* The reservoir on streams longer than its capacity: rows without a
\* catalog, named after their row number
MaxStream == 5
StreamRows(n) == [k \in 1..n |-> RowShort]
StreamSources == { StreamRows(n) : n \in (MAX_PRODUCTS + 1)..MaxStream }
InitStream == InitLoader(StreamSources) /\ QuietSim /\ QuietHist /\ InitSettings /\ QuietScreen /\ QuietStats /\ QuietRace
SpecStream == InitStream /\ [][NextIngest]_vars

\* The classifier on the names of NameRows
InitClassify ==
    /\ InitLoader(SeqsUpTo(NameRows, MaxRows))
    /\ QuietSim /\ QuietHist /\ InitSettings /\ QuietScreen /\ QuietStats /\ QuietRace
SpecClassify == InitClassify /\ [][NextIngest]_vars

\* The pricing engine
InitEngine == QuietLoader /\ InitSim(SettingsChoices, Streams) /\ QuietHist /\ InitSettings /\ QuietScreen /\ QuietStats /\ QuietRace
NextEngine ==
    \/ (NewEngine /\ UNCHANGED << loaderVars, histVars, setVars, screenVars, statVars, raceVars >>)
    \/ (RunSimulation /\ UNCHANGED << loaderVars, histVars, setVars, screenVars, statVars, raceVars >>)
    \/ (SimStep /\ UNCHANGED << loaderVars, histVars, setVars, screenVars, statVars, raceVars >>)
    \/ (SimReturn /\ UNCHANGED << loaderVars, histVars, setVars, screenVars, statVars, raceVars >>)
    \/ (SimIdle /\ UNCHANGED << loaderVars, histVars, setVars, screenVars, statVars, raceVars >>)
SpecEngine == InitEngine /\ [][NextEngine]_vars

\* run_simulation is one sequential call: once entered, its loop takes its
\* next iteration (the step of the engine that draws four numbers) and, the
\* iterations done, it returns (the step that ends the loop)
SpecEngineLive ==
    /\ SpecEngine
    /\ WF_rng_pos(LoopAdvance)
    /\ WF_sim_pc(LoopExit)

\* Engines built one after the other while the clock runs, each used for one
\* run, the result of a run kept for comparison
InitRepro ==
    /\ QuietLoader
    /\ InitSim({ [DefaultSettings EXCEPT !.default_steps = 2] }, { QuietStream })
    /\ QuietHist
    /\ InitSettings
    /\ QuietScreen /\ QuietStats /\ QuietRace
NextRepro ==
    \/ (NewEngine /\ UNCHANGED << loaderVars, histVars, setVars, screenVars, statVars, raceVars >>)
    \/ (RunSimulation /\ engine_runs = 0 /\ UNCHANGED << loaderVars, histVars, setVars, screenVars, statVars, raceVars >>)
    \/ (SimStep /\ UNCHANGED << loaderVars, histVars, setVars, screenVars, statVars, raceVars >>)
    \/ (SimReturn /\ UNCHANGED << loaderVars, histVars, setVars, screenVars, statVars, raceVars >>)
    \/ (SimIdle /\ UNCHANGED << loaderVars, histVars, setVars, screenVars, statVars, raceVars >>)
    \/ (Tick /\ UNCHANGED << loaderVars, histVars, setVars, screenVars, statVars, raceVars >>)
    \/ (KeepFirstRun /\ UNCHANGED << loaderVars, histVars, setVars, screenVars, statVars, raceVars >>)
SpecRepro == InitRepro /\ [][NextRepro]_vars

\* One pricing engine with suggest_price called on it during the runs
InitSuggest ==
    /\ QuietLoader
    /\ InitSim({ DefaultSettings, CompetitionOnlySettings }, { QuietStream })
    /\ QuietHist
    /\ InitSettings
    /\ QuietScreen /\ QuietStats /\ QuietRace
NextSuggest ==
    \/ (RunSimulation /\ UNCHANGED << loaderVars, histVars, setVars, screenVars, statVars, raceVars >>)
    \/ (SimStep /\ UNCHANGED << loaderVars, histVars, setVars, screenVars, statVars, raceVars >>)
    \/ (SimReturn /\ UNCHANGED << loaderVars, histVars, setVars, screenVars, statVars, raceVars >>)
    \/ (SimIdle /\ UNCHANGED << loaderVars, histVars, setVars, screenVars, statVars, raceVars >>)
    \/ (Suggest /\ UNCHANGED << loaderVars, histVars, setVars, screenVars, statVars, raceVars >>)
SpecSuggest == InitSuggest /\ [][NextSuggest]_vars

\* The history store
InitHistory == QuietLoader /\ QuietSim /\ InitHist(RunPatterns) /\ InitSettings /\ QuietScreen /\ QuietStats /\ QuietRace
NextHistory ==
    \/ (SaveSimulation /\ UNCHANGED << loaderVars, simVars, setVars, screenVars, statVars, raceVars >>)
    \/ (ClearSimulationHistory /\ UNCHANGED << loaderVars, simVars, setVars, screenVars, statVars, raceVars >>)
SpecHistory == InitHistory /\ [][NextHistory]_vars

\* The settings store
InitStore == QuietLoader /\ QuietSim /\ QuietHist /\ InitSettings /\ QuietScreen /\ QuietStats /\ QuietRace
NextStore ==
    \/ (LoadSettings /\ UNCHANGED << loaderVars, simVars, histVars, screenVars, statVars, raceVars >>)
    \/ (SaveSettings /\ UNCHANGED << loaderVars, simVars, histVars, screenVars, statVars, raceVars >>)
    \/ (EnvEditSettings /\ UNCHANGED << loaderVars, simVars, histVars, screenVars, statVars, raceVars >>)
    \/ (EnvRemoveSettings /\ UNCHANGED << loaderVars, simVars, histVars, screenVars, statVars, raceVars >>)
SpecStore == InitStore /\ [][NextStore]_vars

\* The pricing screen
InitScreenSpec ==
    /\ QuietLoader
    /\ QuietSim
    /\ QuietHist
    /\ InitSettings
    /\ InitScreen
    /\ QuietStats /\ QuietRace
NextScreen ==
    \/ (PressRun /\ UNCHANGED << loaderVars, simVars, setVars, statVars, raceVars >>)
    \/ (PressClear /\ UNCHANGED << loaderVars, simVars, setVars, statVars, raceVars >>)
SpecScreen == InitScreenSpec /\ [][NextScreen]_vars

\* A session of the application: started on the store it finds, then runs on
\* the pricing screen and clears on the settings screen
InitSessionSpec ==
    /\ QuietLoader
    /\ QuietSim
    /\ InitSettings
    /\ InitSession
    /\ QuietStats /\ QuietRace
SpecSession == InitSessionSpec /\ [][NextScreen]_vars

\* The statistics pass
InitStatsSpec ==
    /\ QuietLoader /\ QuietSim /\ QuietHist /\ InitSettings /\ QuietScreen
    /\ InitStats /\ QuietRace
NextStats ==
    \/ (StatisticsPass /\ UNCHANGED << loaderVars, simVars, histVars, setVars, screenVars, raceVars >>)
SpecStats == InitStatsSpec /\ [][NextStats]_vars

\* Two processes ingesting the same source
InitRaceSpec ==
    /\ QuietLoader /\ QuietSim /\ QuietHist /\ InitSettings /\ QuietScreen /\ QuietStats
    /\ InitRace
NextRace ==
    \/ \E p \in Procs :
          RaceLookup(p) /\ UNCHANGED << loaderVars, simVars, histVars, setVars, screenVars, statVars >>
    \/ \E p \in Procs :
          RaceIngest(p) /\ UNCHANGED << loaderVars, simVars, histVars, setVars, screenVars, statVars >>
    \/ \E p \in Procs :
          RaceOpen(p) /\ UNCHANGED << loaderVars, simVars, histVars, setVars, screenVars, statVars >>
    \/ \E p \in Procs :
          RaceWriteHead(p) /\ UNCHANGED << loaderVars, simVars, histVars, setVars, screenVars, statVars >>
    \/ \E p \in Procs :
          RaceWriteTail(p) /\ UNCHANGED << loaderVars, simVars, histVars, setVars, screenVars, statVars >>
SpecRace == InitRaceSpec /\ [][NextRace]_vars


\* ------------------------------------------------------------------------
\* Properties
\* ------------------------------------------------------------------------

\* C1: a run_simulation call asked for zero steps returns a result with no
\* actions, total and average reward 0, and the final price equal to the
\* initial price.
C1_ZeroStepRunIsEmpty ==
    (sim_pc = "done" /\ sim_arg = StepsArg(0)) =>
        /\ result.actions = << >>
        /\ result.total_reward = 0
        /\ result.avg_reward = 0
        /\ result.final_price = result.initial_price

\* C2: no row of a readable source aborts the ingestion: every call of
\* load_and_cache returns a snapshot, and a snapshot computed from the
\* source has counted every one of its rows.
C2_NoRowAbortsIngestion ==
    (pc = "done" /\ lac.kind # "none") =>
        /\ lac.kind = "data"
        /\ (lac.via = "computed" => lac.data.total_in_csv = Len(src.rows))

\* C3 as the specification states it: whenever _load_data has run on a
\* source that is absent or unreadable, the application holds the empty
\* snapshot and no exception has escaped.
C3_UnreadableGivesEmpty ==
    (/\ pc = "done"
     /\ caller \in {"app", "reload"}
     /\ app_exc # "OSError(unlink)"
     /\ (~src.exists \/ ~src.readable))
    => (app_data = EmptyData /\ app_exc = "")

\* C3, amended: whenever _load_data has run, no exception has escaped it;
\* on an absent source the application holds the empty snapshot; on an
\* unreadable source it holds the snapshot cached under the source's key
\* when that entry is valid and non-empty, and the empty snapshot otherwise.
C3_UnreadableGivesEmptyOrCached ==
    (/\ pc = "done"
     /\ caller \in {"app", "reload"}
     /\ app_exc # "OSError(unlink)")
    => /\ app_exc = ""
       /\ (~src.exists => app_data = EmptyData)
       /\ (src.exists /\ ~src.readable =>
             LET found == CacheLookup(cache, CacheKey(src))
             IN  app_data = IF found.hit THEN found.data ELSE EmptyData)

\* _load_data has caught the PermissionError of an unreadable source
C3_Witness ==
    /\ pc = "done"
    /\ caller = "app"
    /\ src.exists /\ ~src.readable
    /\ lac = Raised("PermissionError")
    /\ app_data = EmptyData
    /\ app_exc = ""

\* C4: while the rows are read the reservoir holds min(i, MAX_PRODUCTS)
\* records after i rows, and the snapshot computed from an N-row source has
\* total_products = len(products) = min(N, MAX_PRODUCTS) and total_in_csv = N.
C4_ReservoirSize ==
    /\ (pc = "sampling" =>
          Len(reservoir) = MinOf({total_rows, MAX_PRODUCTS}))
    /\ (pc = "done" /\ lac.via = "computed" =>
          /\ lac.data.total_products = MinOf({Len(src.rows), MAX_PRODUCTS})
          /\ Len(lac.data.products) = lac.data.total_products
          /\ lac.data.total_in_csv = Len(src.rows)
          /\ lac.data.total_products <= lac.data.total_in_csv)

\* More rows than the capacity have been read
C4_Witness ==
    /\ pc = "sampling"
    /\ total_rows > MAX_PRODUCTS
    /\ Len(reservoir) = MAX_PRODUCTS

\* C5: for a source of N > MAX_PRODUCTS rows, among the equally likely
\* sequences of draws the loop can make, each row ends in the reservoir in
\* exactly the fraction MAX_PRODUCTS / N of them.
C5_UniformInclusion ==
    (pc = "sampling" /\ total_rows = 0 /\ Len(src.rows) > MAX_PRODUCTS) =>
        LET n == Len(src.rows)
            \* the pairs << draws made, reservoir >> after i rows
            runs[i \in 0..n] ==
                IF i = 0 THEN { << << >>, << >> >> }
                ELSE LET p == ParseRow(i - 1, src.rows[i]).product
                     IN  UNION { IF NeedsDraw(run[2])
                                 THEN { << Append(run[1], j),
                                           ReservoirStep(run[2], i - 1, p, j) >> :
                                        j \in RandInt(0, i - 1) }
                                 ELSE { << run[1], ReservoirStep(run[2], i - 1, p, 0) >> } :
                                 run \in runs[i - 1] }
            total == Cardinality(runs[n])
        IN  \A k \in 1..n :
               LET p == ParseRow(k - 1, src.rows[k]).product
                   kept == Cardinality({ run \in runs[n] : p \in Range(run[2]) })
               IN  kept * n = MAX_PRODUCTS * total

\* A sampling pass has replaced the first record of the reservoir by the
\* last row of a source at least two rows longer than the capacity
C5_Witness ==
    /\ pc = "sampling"
    /\ total_rows = Len(src.rows)
    /\ Len(src.rows) >= MAX_PRODUCTS + 2
    /\ reservoir[1] = ParseRow(total_rows - 1, src.rows[total_rows]).product

\* C6: in every snapshot load_and_cache returns, the category counts sum to
\* total_products, each record is counted once under its own category
\* whatever its price, and priced_products is the number of records whose
\* price is above zero.
C6_CategoryCountsPartition ==
    (pc = "done" /\ lac.kind = "data") =>
        LET d == lac.data
            ps == d.products
        IN  /\ SumSeq(DictValues(d.category_counts)) = d.total_products
            /\ \A k \in DOMAIN ps : DictHas(d.category_counts, ps[k].category)
            /\ \A n \in DOMAIN d.category_counts :
                  d.category_counts[n][2] =
                     Cardinality({ k \in DOMAIN ps :
                                     ps[k].category = d.category_counts[n][1] })
            /\ d.priced_products =
                  Cardinality({ k \in DOMAIN ps : ps[k].price > 0 })

\* A computed snapshot holds a priced record and a record without a price
C6_Witness ==
    /\ pc = "done"
    /\ lac.via = "computed"
    /\ lac.data.priced_products > 0
    /\ lac.data.priced_products < lac.data.total_products

\* C7: load_and_cache returns the stored snapshot only when the cache file
\* under the source's key is present, unpickles to a PrecomputedData and
\* holds at least one product; otherwise it goes on to read the source, and
\* no exception it raises comes from reading the cache: a call fails only
\* on a cache directory that cannot be created, on an absent source, or,
\* after a miss, on the source itself.
C7_CacheHitOnlyWhenValid ==
    LET present == cache_path \in DOMAIN cache
        valid == /\ present
                 /\ cache[cache_path].kind = "pickle"
                 /\ cache[cache_path].cls = "PrecomputedData"
                 /\ cache[cache_path].obj.total_products > 0
    IN  /\ (pc = "done" /\ lac.via = "hit" =>
              valid /\ lac.data = cache[cache_path].obj)
        /\ (pc = "sampling" => ~valid)
        /\ (pc = "done" /\ lac.kind = "exception" =>
              /\ lac.exc # "UnpicklingError"
              /\ \/ cachedir = "blocked"
                 \/ ~src.exists
                 \/ ~valid /\ ~src.readable
                 \/ ~valid /\ \E k \in DOMAIN src.rows :
                                ~ParseRow(k - 1, src.rows[k]).ok)

\* The source is being read again although a damaged cache file is present
C7_Witness ==
    /\ pc = "sampling"
    /\ cache_path \in DOMAIN cache
    /\ cache[cache_path] \in {Garbage, WrongType}

\* C8: on a readable source whose rows all parse, load_and_cache returns a
\* snapshot whatever the state of the cache directory: no failure of the
\* cache location escapes the call.
C8_CacheFailureSwallowed ==
    (/\ pc = "done"
     /\ lac.kind # "none"
     /\ src.exists /\ src.readable
     /\ \A k \in DOMAIN src.rows : ParseRow(k - 1, src.rows[k]).ok)
    => lac.kind = "data"

\* C9: when load_and_cache is called while the file it last wrote is still
\* in place with a non-empty snapshot, and the source has the name, size,
\* whole-second modification time and capacity it had at that write, the
\* call returns that snapshot, reads no row and draws no random number.
C9_RepeatedLoadReturnsStored ==
    [][ (/\ pc = "idle"
         /\ pc' # "idle"
         /\ caller' \in {"app", "direct"}
         /\ stored.valid
         /\ stored.data.total_products > 0
         /\ stored.path \in DOMAIN cache
         /\ cache[stored.path] = Pickled(stored.data)
         /\ src.exists
         /\ << src.name, src.size, src.mtime \div Subsec, MAX_PRODUCTS >> = stored.fp)
        => (/\ pc' = "done"
            /\ lac' = Returned("hit", stored.data)
            /\ rand_calls' = rand_calls
            /\ cache' = cache) ]_vars

\* A call has returned the stored snapshot after the source's modification
\* time moved within the same second
C9_Witness ==
    /\ pc = "done"
    /\ lac.via = "hit"
    /\ stored.valid
    /\ lac.data = stored.data
    /\ src.mtime % Subsec # 0

\* C10: the history file holds the summaries of the most recent
\* min(n, 200) of the n runs saved since it was last empty, in the order
\* they were saved, and never more than 200.
C10_HistoryKeepsMostRecent ==
    LET n == Len(saved)
        k == IF n < HISTORY_CAP THEN n ELSE HISTORY_CAP
    IN  /\ history_file.entries = SubSeq(saved, n - k + 1, n)
        /\ Len(history_file.entries) <= HISTORY_CAP
        /\ (history_file.exists <=> n > 0)

\* More runs than the cap have been saved
C10_Witness ==
    /\ Len(saved) > HISTORY_CAP
    /\ Len(history_file.entries) = HISTORY_CAP

\* C11: load_settings never raises and returns a complete settings record:
\* whatever settings.json holds, the call ends with a record of all the
\* fields of AppSettings, each taken from the document when the document is
\* an object naming it and from the defaults otherwise; a document that is
\* absent, no JSON, or no object gives the defaults.
C11_LoadSettingsNeverRaises ==
    (loaded.kind # "none") =>
        /\ loaded.kind = "settings"
        /\ DOMAIN loaded.settings = DOMAIN DefaultSettings

\* C12: two engines built with the same settings, each running run_simulation
\* once on the same product, market and step count, return identical
\* results, every field of every action of the trace included.
C12_FirstRunIsReproducible ==
    ( /\ sim_pc = "done"
      /\ engine_runs = 1
      /\ first_run.valid
      /\ first_run.settings = settings
      /\ first_run.product = sim_product
      /\ first_run.market = sim_market
      /\ first_run.steps = steps ) =>
        result = first_run.result

\* C13: suggest_price is pure: a call leaves the engine's generator, its
\* settings and the market as they were, and a call on the market of the call
\* before it returns the same price, also when simulation steps ran between
\* the two.
C13_SuggestPriceIsPure ==
    [][ (suggested'.calls = suggested.calls + 1) =>
            /\ rng_pos' = rng_pos
            /\ settings' = settings
            /\ sim_market' = sim_market
            /\ current_market' = current_market
            /\ suggested'.price = SuggestPrice(settings, suggested'.market)
            /\ (suggested.calls > 0 /\ suggested'.market = suggested.market)
                   => suggested'.price = suggested.price ]_vars

C13_Witness ==
    /\ suggested.repeats >= 1
    /\ suggested.first_at = 0
    /\ suggested.at >= 1
    /\ rng_pos = 4 * Len(actions)

\* C14: suggest_price returns one of the ten candidates, each floored at one
\* cent and rounded to cents, whose total reward (the candidate as new price,
\* the market's current price as old price) is the highest; among candidates
\* of equal reward it returns the earliest in the fixed order.
C14_SuggestIsEarliestBest ==
    (suggested.calls > 0) =>
        LET m == suggested.market
            c == Candidates(settings, m)
            rew(i) == ComputeReward(settings, m.current_price, c[i], m).total
        IN  /\ Len(c) = 10
            /\ \A i \in 1..10 : c[i] >= 1
            /\ \E i \in 1..10 :
                 /\ suggested.price = c[i]
                 /\ \A j \in 1..10 : rew(j) <= rew(i)
                 /\ \A j \in 1..(i - 1) : rew(j) < rew(i)

\* A call that returned a candidate other than the current price, while a
\* later candidate of another price had the same reward
C14_Witness ==
    /\ suggested.calls > 0
    /\ suggested.price # suggested.market.current_price
    /\ LET m == suggested.market
           c == Candidates(settings, m)
           rew(i) == ComputeReward(settings, m.current_price, c[i], m).total
       IN  \E i, j \in 1..10 :
              /\ i < j
              /\ c[i] = suggested.price
              /\ c[j] # c[i]
              /\ rew(j) = rew(i)

\* C15: every market state simulate_step has produced, whatever market the
\* run started from, has inventory >= 0, user_engagement within [0.05, 1.0],
\* seasonal_factor within [0.3, 2.5] and competitor_price >= 0.01.
C15_MarketStaysInRange ==
    (sim_pc \in {"loop", "done"} /\ Len(actions) >= 1) =>
        /\ current_market.inventory_level >= 0
        /\ current_market.user_engagement >= 5
        /\ current_market.user_engagement <= 100
        /\ current_market.seasonal_factor >= 30
        /\ current_market.seasonal_factor <= 250
        /\ current_market.competitor_price >= 1

\* One step from a market outside the ranges: each clamp has acted
C15_Witness ==
    /\ sim_pc = "loop"
    /\ Len(actions) = 1
    /\ sim_market.inventory_level < 0
    /\ sim_market.user_engagement > 100
    /\ sim_market.seasonal_factor > 250
    /\ current_market.inventory_level = 0
    /\ current_market.user_engagement = 100
    /\ current_market.seasonal_factor = 250

\* C16: run_simulation called with steps = n >= 1 applies simulate_step
\* exactly n times (four draws each) and always completes; its result holds
\* n actions numbered 1..n and steps = n.
C16_RunsExactlyNSteps ==
    /\ [](sim_pc = "loop" => Len(actions) <= steps)
    /\ []((sim_pc = "done" /\ sim_arg.given /\ sim_arg.n >= 1) =>
            /\ Len(result.actions) = sim_arg.n
            /\ \A k \in 1..Len(result.actions) : result.actions[k].step = k
            /\ result.steps = sim_arg.n
            /\ (engine_runs = 1 => rng_pos = 4 * sim_arg.n))
    /\ ((sim_pc = "loop") ~> (sim_pc = "done"))

C16_Witness ==
    /\ sim_pc = "done"
    /\ sim_arg.given
    /\ sim_arg.n >= 2
    /\ sim_arg.n # settings.default_steps
    /\ Len(result.actions) = sim_arg.n

\* C17: the prices of a run form a chain: the old_price of the first action
\* is the initial market's current price, the old_price of every later
\* action is the new_price of the action before it, and final_price is the
\* new_price of the last action.
C17_PricesChain ==
    (sim_pc = "done" /\ Len(result.actions) >= 1) =>
        LET a == result.actions
        IN  /\ a[1].old_price = sim_market.current_price
            /\ \A k \in 2..Len(a) : a[k].old_price = a[k - 1].new_price
            /\ result.final_price = a[Len(a)].new_price

C17_Witness ==
    /\ sim_pc = "done"
    /\ Len(result.actions) >= 2
    /\ result.actions[1].new_price # result.actions[1].old_price
    /\ result.actions[2].new_price # result.actions[2].old_price
    /\ result.final_price # result.initial_price

\* C18: min_price and max_price of a result are the minimum and the maximum
\* over the initial price and every new price of the run, so the initial
\* price, every new price and the final price lie between them.
C18_MinMaxOverAllPrices ==
    (sim_pc = "done") =>
        LET all == { sim_market.current_price }
                   \cup { result.actions[k].new_price : k \in 1..Len(result.actions) }
        IN  /\ result.min_price \in all
            /\ result.max_price \in all
            /\ \A p \in all : result.min_price <= p /\ p <= result.max_price
            /\ result.min_price <= result.initial_price
            /\ result.initial_price <= result.max_price
            /\ result.min_price <= result.final_price
            /\ result.final_price <= result.max_price

\* A run whose every new price is above the initial one, the highest not
\* the first
C18_Witness ==
    /\ sim_pc = "done"
    /\ Len(result.actions) >= 2
    /\ result.min_price = sim_market.current_price
    /\ \A k \in 1..Len(result.actions) : result.actions[k].new_price > result.min_price
    /\ result.max_price > result.actions[1].new_price

\* C20: price_adjustment_range is the largest change of price in a step: the
\* new price of every action differs from its old price by at most
\* price_adjustment_range times the old price (15% with the default
\* settings), whatever the competitor's price.
C20_StepWithinAdjustmentRange ==
    \A k \in 1..Len(actions) :
        100 * Abs(actions[k].new_price - actions[k].old_price)
            <= settings.price_adjustment_range * actions[k].old_price

\* C19: the pricing screen calls run_simulation only with a product of the
\* snapshot whose price is above 0 and with a number of steps within the
\* limits of the steps input; any other request is rejected with a message,
\* the engine not called and the history store and list left as they were.
C19_EngineOnlyOnValidatedRequests ==
    /\ [](\A k \in 1..Len(engine_calls) :
            /\ \E i \in 1..Len(products) : products[i] = engine_calls[k].product
            /\ PricePositive(engine_calls[k].product)
            /\ engine_calls[k].steps >= ScreenMinSteps
            /\ engine_calls[k].steps <= ScreenMaxSteps)
    /\ [][ (nclicks' = nclicks + 1 /\ engine_calls' = engine_calls) =>
              /\ sim_status' \in { "Enter a Product ID first.", "Invalid Product ID.",
                                   "not found", "has no price data" }
              /\ UNCHANGED << histVars, simulation_history >> ]_vars

\* C21: the category of every product is the label of the first rule, in
\* declaration order, one of whose keywords occurs somewhere in the
\* lower-cased product name, wherever the keywords stand in the name and
\* whatever later rules match, and it is "Other" exactly when no rule matches.
C21_ClassifierIsFirstMatch ==
    LET matches(r, low) ==
            \E k \in DOMAIN CAT_RULES[r][2] : Contains(low, CAT_RULES[r][2][k])
        first(p) ==
            LET low == Lower(p.name)
                hits == { r \in DOMAIN CAT_RULES : matches(r, low) }
            IN  /\ (hits = {}) <=> (p.category = "Other")
                /\ hits # {} =>
                      \E r \in hits :
                         /\ p.category = CAT_RULES[r][1]
                         /\ \A q \in hits : r <= q
    IN  /\ \A n \in DOMAIN reservoir : first(reservoir[n])
        /\ lac.kind = "data" =>
              \A n \in DOMAIN lac.data.products : first(lac.data.products[n])

\* A snapshot holding "Organic Chai Tea Bags" as "Coffee & Tea", a product
\* whose later-matching rule has its keyword first in the name, and a product
\* no rule matches
C21_Witness ==
    /\ lac.kind = "data"
    /\ \E n \in DOMAIN lac.data.products :
          /\ lac.data.products[n].name = <<"O","r","g","a","n","i","c"," ","C","h","a","i"," ","T","e","a"," ","B","a","g","s">>
          /\ lac.data.products[n].category = "Coffee & Tea"
    /\ \E n \in DOMAIN lac.data.products :
          LET low == Lower(lac.data.products[n].name)
          IN  /\ lac.data.products[n].category = "Snacks & Chips"
              /\ Find(low, <<"s","a","l","t">>, 0) >= 0
              /\ Find(low, <<"s","a","l","t">>, 0) < Find(low, <<"c","h","i","p">>, 0)

\* C22: with the old price and the market of a step held fixed, the
\* competitive penalty of compute_reward is 0 for every new price up to the
\* competitor's price and strictly higher for every higher new price above
\* it, and the stability penalty is strictly higher the farther the new
\* price lies from the old one.  The new prices are the cent values from half
\* the lower to twice the higher of the market's two prices.
C22_RewardMonotonicity ==
    (sim_pc = "loop" /\ Len(actions) >= 1) =>
        LET m == current_market
            old == current_price
            lo == Max2(1, Min2(m.current_price, m.competitor_price) \div 2)
            hi == 2 * Max2(m.current_price, m.competitor_price)
            rew == [p \in lo..hi |-> ComputeReward(settings, old, p, m)]
        IN  /\ \A p \in lo..hi :
                  (p <= m.competitor_price) => rew[p].competitive = 0
            /\ \A p \in lo..(hi - 1) :
                  (p >= m.competitor_price) =>
                      rew[p + 1].competitive > rew[p].competitive
            /\ \A p \in lo..(hi - 1) :
                  /\ (p >= old) => rew[p + 1].stability > rew[p].stability
                  /\ (p + 1 <= old) => rew[p].stability > rew[p + 1].stability
            /\ \A p \in lo..hi :
                  (2 * old - p \in lo..hi) =>
                      rew[p].stability = rew[2 * old - p].stability

\* A step that priced above the competitor and away from the old price:
\* both penalties of its action are above 0
C22_Witness ==
    /\ sim_pc = "loop"
    /\ Len(actions) = 1
    /\ actions[1].new_price > sim_market.competitor_price
    /\ actions[1].competitive_component > 0
    /\ actions[1].stability_component > 0

\* C23: when reload_data has returned on a constructed application, the
\* cache directory holds no entry older than the reload (at most the one the
\* reload itself has written), and each value the application holds for its
\* screens (data, products, category_counts, total_products, priced_products,
\* avg_price, min_price, max_price, zero_price_count) is the corresponding
\* field of the snapshot the reload has loaded.
C23_ReloadReplacesSnapshot ==
    (pc = "done" /\ caller = "reload" /\ app_exc = "" /\ app_view.constructed) =>
        /\ DOMAIN cache \subseteq { cache_path }
        /\ lac.kind = "data" => (lac.via = "computed" /\ app_data = lac.data)
        /\ app_view.products = app_data.products
        /\ app_view.category_counts = app_data.category_counts
        /\ app_view.total_products = app_data.total_products
        /\ app_view.priced_products = app_data.priced_products
        /\ app_view.avg_price = app_data.avg_price
        /\ app_view.min_price = app_data.min_price
        /\ app_view.max_price = app_data.max_price
        /\ app_view.zero_price_count = app_data.zero_price_count

\* C24: in a snapshot with priced_count > 0, median_price is the element at
\* index len // 2 of the ascending list of the prices above 0 (as many as
\* len // 2 of them at most lie below it and more than len // 2 lie at or
\* below it: the upper median of an even count), min_price <= median_price
\* <= max_price, and no price <= 0 is among the prices the three are taken
\* from.
C24_MedianIsUpperMiddle ==
    (stats_done /\ stats.priced_products > 0) =>
        LET pos == { k \in DOMAIN sampled : sampled[k].price > 0 }
            n == Cardinality(pos)
            below(m) == Cardinality({ k \in pos : sampled[k].price < m })
            upto(m) == Cardinality({ k \in pos : sampled[k].price <= m })
        IN  /\ stats.priced_products = n
            /\ \E k \in pos : stats.median_price = sampled[k].price
            /\ below(stats.median_price) <= n \div 2
            /\ upto(stats.median_price) > n \div 2
            /\ stats.min_price <= stats.median_price
            /\ stats.median_price <= stats.max_price
            /\ \A k \in pos : /\ stats.min_price <= sampled[k].price
                               /\ sampled[k].price <= stats.max_price
            /\ stats.min_price > 0

\* A sample with an even count of priced products of different prices, the
\* dearer one first, beside a product of negative price: the median is the
\* upper of the two
C24_Witness ==
    /\ stats_done
    /\ stats.priced_products = 2
    /\ \E k \in DOMAIN sampled : sampled[k].price < 0
    /\ \E j, k \in DOMAIN sampled :
          /\ j < k
          /\ sampled[j].price > sampled[k].price
          /\ sampled[k].price > 0
          /\ stats.median_price = sampled[j].price
          /\ stats.min_price = sampled[k].price

\* C25: category_counts of a snapshot lists every category of the sample
\* once, with its number of products, in descending order of count, and
\* categories of equal count stand in the order in which the sweep over the
\* sample first met them.
C25_CategoryCountsOrder ==
    stats_done =>
        LET cc == stats.category_counts
            cats == { sampled[k].category : k \in DOMAIN sampled }
            count(c) == Cardinality({ k \in DOMAIN sampled : sampled[k].category = c })
            first_seen(c) == MinOf({ k \in DOMAIN sampled : sampled[k].category = c })
        IN  /\ Len(cc) = Cardinality(cats)
            /\ \A i \in DOMAIN cc : /\ cc[i][1] \in cats
                                     /\ cc[i][2] = count(cc[i][1])
            /\ \A i, j \in DOMAIN cc :
                  (i < j) =>
                      /\ cc[i][1] # cc[j][1]
                      /\ cc[i][2] >= cc[j][2]
                      /\ (cc[i][2] = cc[j][2]) =>
                            first_seen(cc[i][1]) < first_seen(cc[j][1])

\* A sample in which the category met second has the most products and two
\* other categories have one product each: the sort has moved the second
\* category to the front and left the other two in the order they were met
C25_Witness ==
    /\ stats_done
    /\ Len(sampled) = 4
    /\ Len(stats.category_counts) = 3
    /\ stats.category_counts[1][1] = sampled[2].category
    /\ stats.category_counts[1][2] = 2
    /\ stats.category_counts[2][1] = sampled[1].category
    /\ stats.category_counts[2][2] = 1
    /\ stats.category_counts[3][2] = 1

\* C26: of every catalog blob read so far, each field whose marker is found
\* is the trimmed text from behind the first ':' after the marker up to the
\* start of the nearest marker found behind it (or the end of the blob), cut
\* to 120, 200 and 300 characters for name, bullets and description; a field
\* whose marker is not found is empty, but for the name, which is then the
\* first 80 characters of the blob with newlines replaced by spaces.  (A
\* product whose extracted name is empty is named "Product <row>".)
C26_FieldsEndAtNextMarker ==
    (pc = "sampling" /\ total_rows <= MAX_PRODUCTS /\ Len(reservoir) = total_rows) =>
        \A n \in 1..total_rows :
            LET cell == src.rows[n].catalog_content
                raw == cell.v
                low == Lower(raw)
                ni == Find(low, ITEM_NAME, 0)
                bi == Find(low, BULLET_POINT, 0)
                di == Find(low, PRODUCT_DESCRIPTION, 0)
                behind(mi) == { q \in {ni, bi, di} : q > mi }
                stop(mi) == IF behind(mi) = {} THEN Len(raw) ELSE MinOf(behind(mi))
                field(mi, cap) ==
                    IF mi < 0 THEN << >>
                    ELSE Slice(Strip(Slice(raw, Find(raw, COLON, mi) + 1, stop(mi))), 0, cap)
                name == IF ni >= 0 THEN field(ni, NAME_CAP)
                        ELSE ReplaceNewlines(Slice(raw, 0, FALLBACK_CAP))
                p == reservoir[n]
            IN  (cell.k = "text" /\ raw # << >>) =>
                    /\ p.name = IF name = << >> THEN PRODUCT_PREFIX \o IntToText(n - 1)
                                ELSE name
                    /\ p.bullet_points = field(bi, BULLETS_CAP)
                    /\ p.description = field(di, DESC_CAP)

\* C27: a process that looks the cache entry up while another process stores
\* it finds no entry, a complete entry or nothing else: never a file that is
\* only partly written; and once every process has returned, the file holds
\* the complete snapshot of the process that closed it last.
C27_CacheReplacedAtomically ==
    /\ \A p \in Procs : proc[p].observed # "partial"
    /\ ((\A p \in Procs : proc[p].pc = "returned") /\ close_order # << >>) =>
          BlobOf(cache_file) = Pickled(proc[close_order[Len(close_order)]].data)

\* C28: in every step of run_simulation the old price handed to
\* simulate_step is the current_price of the market handed with it, and the
\* reward recorded in the step's action is, rounded to four decimals, the
\* highest total reward among the step's ten candidates, reached by the
\* price the action records.
C28_RecordedRewardIsBest ==
    /\ [](sim_pc = "loop" => current_price = current_market.current_price)
    /\ [][(Len(actions') = Len(actions) + 1) =>
            LET m == current_market
                c == Candidates(settings, m)
                rew(i) == ComputeReward(settings, m.current_price, c[i], m).total
                best == MaxOf({ rew(i) : i \in 1..10 })
                a == actions'[Len(actions')]
            IN  /\ a.old_price = m.current_price
                /\ a.reward = RoundDiv(best, 100)
                /\ \E i \in 1..10 : c[i] = a.new_price /\ rew(i) = best]_vars

\* A second step whose old price is the price the first step chose, and
\* which moved the price again
C28_Witness ==
    /\ sim_pc = "loop"
    /\ Len(actions) = 2
    /\ actions[1].new_price # actions[1].old_price
    /\ actions[2].old_price = actions[1].new_price
    /\ actions[2].new_price # actions[2].old_price
    /\ actions[2].reward # 0

\* C29: in a run started on a market whose current_price and
\* competitor_price are above 0, the new price of every action, the
\* current_price of the market after every step and the price handed to the
\* next step are at least one cent.
C29_PricesStayPositive ==
    (sim_pc \in {"loop", "done"}
       /\ sim_market.current_price > 0 /\ sim_market.competitor_price > 0) =>
        /\ \A k \in DOMAIN actions : /\ actions[k].new_price >= 1
                                      /\ actions[k].old_price >= 1
        /\ current_market.current_price >= 1
        /\ current_market.competitor_price >= 1
        /\ current_price >= 1

\* A finished rollout of two steps and more from a market whose competitor
\* stands at one cent: candidates below one cent were floored in each step
C29_Witness ==
    /\ sim_pc = "done"
    /\ Len(actions) >= 2
    /\ sim_market.current_price > 0
    /\ sim_market.competitor_price = 1
    /\ sim_market.competitor_price * 98 < 100
    /\ actions[Len(actions)].new_price < sim_market.current_price

\* C30: after any runs and clears of a session, the application's
\* simulation_history and the history file describe the same simulations:
\* as many entries, in the same order, for the same products
C30_MemoryMatchesStore ==
    /\ Len(simulation_history) = Len(history_file.entries)
    /\ \A k \in DOMAIN simulation_history :
         k \in DOMAIN history_file.entries =>
             simulation_history[k].product_id = history_file.entries[k].product_id
====
